---- MODULE Spec2Model ----
(***************************************************************************)
(* A model of trash-compactor's eligibility-and-scheduling engine:         *)
(*   - the per-file classifier (src/src/file_utils.py),                    *)
(*   - the worker-count computation (src/src/workers.py),                  *)
(*   - the batch chunker and the execution scheduler                       *)
(*     (src/src/compression/compression_executor.py),                      *)
(*   - the directory walker and the planner                                *)
(*     (src/src/compression/compression_planner.py, src/src/skip_logic.py).*)
(* Each part has its own specification over the shared variables; the      *)
(* variables of the other parts stay at their idle values.                 *)
(***************************************************************************)
EXTENDS Integers, Sequences, FiniteSets, TLC

\* Optional[int]: None is the empty set, a value n is {n}
None == {}

Some(n) == {n}

Val(o) == CHOOSE n \in o : TRUE

Max(a, b) == IF a >= b THEN a ELSE b

Min(a, b) == IF a <= b THEN a ELSE b

(***************************************************************************)
(* The state.                                                              *)
(***************************************************************************)

\* One call of the per-file classifier (file_utils.py)
VARIABLES
    f_suffix,        \* Path.suffix of the file, as written on disk
    f_size,          \* logical size, st_size
    f_alloc,         \* allocated size reported by GetCompressedFileSizeW
    f_stat_ok,       \* <<b1, b2>>: whether the 1st / 2nd stat() of a call succeeds
    f_getter_ok,     \* FALSE: GetCompressedFileSizeW returns 0xFFFFFFFF with an error
    f_compact,       \* outcome of `compact /a <file>`
    f_thorough,      \* the thorough_check argument
    f_pc,            \* "ready" | "classified" | "queried"
    f_decision,      \* result of should_compress_file
    f_compressed,    \* result of is_file_compressed: [compressed, size]
    f_stat_calls,    \* number of stat() calls the operation made
    f_compact_calls  \* number of external compact status queries the operation made

fileVars == <<f_suffix, f_size, f_alloc, f_stat_ok, f_getter_ok, f_compact,
              f_thorough, f_pc, f_decision, f_compressed, f_stat_calls,
              f_compact_calls>>

\* The worker cap and the worker counts (workers.py)
VARIABLES
    w_cap,        \* _WORKER_CAP: None or the configured limit
    w_physical,   \* get_cpu_info()[0]: None (unknown) or the physical core count
    w_logical,    \* get_cpu_info()[1]: None (unknown) or the logical core count
    w_raised,     \* whether the last set_worker_cap call raised ValueError
    w_limit,      \* the argument of the last set_worker_cap call
    w_xp,         \* last xp_worker_count() result, with the cap it was computed under
    w_lzx,        \* last lzx_worker_count() result, with the cap it was computed under
    w_entropy     \* last entropy_worker_count() result, with its cap

workerVars == <<w_cap, w_physical, w_logical, w_raised, w_limit, w_xp, w_lzx, w_entropy>>

\* len(str(path.resolve())) of every path handed to the chunker
VARIABLES
    path_len

\* One run of the chunker on a list of entries (compression_executor.py _chunk)
VARIABLES
    c_entries,    \* the entries of one algorithm group: <<path, file_size>> pairs
    c_i,          \* index of the entry the loop of _chunk takes next
    c_state,      \* _chunk's locals: current, current_length, and the batches yielded
    c_batches,    \* list(_chunk(entries, _BATCH_SIZE)), once complete
    c_pc          \* "loop" | "chunked"

chunkVars == <<c_entries, c_i, c_state, c_batches, c_pc>>

\* One run of execute_compression_plan (compression_executor.py)
VARIABLES
    x_plan,       \* the plan: <<path, size, algorithm>> triples
    x_xp,         \* the xp_workers argument
    x_lzx,        \* the lzx_workers argument
    x_pc,         \* "start" | "group" | "returned"
    x_groups,     \* grouped: <<algorithm, entries>> pairs in first-seen order
    x_g,          \* index of the group the outer loop is at
    x_batches,    \* the batches of the current group
    x_fut,        \* state of each batch's future: "pending" | "running" |
                  \*   "ok" | "failed" (returncode != 0) | "raised"
    x_taken,      \* the futures as_completed has already handed to the main thread
    x_cur,        \* the batch the main thread is handling, 0 when it waits
    x_k,          \* index of the file of x_cur the main thread handles next
    x_active,     \* the path of the single-file call in progress, 0 when none
    x_stats,      \* the CompressionStats fields the executor updates
    x_calls,      \* per path: the number of compress_file calls issued
    x_single,     \* per path: how its last compress_file call ended
    x_comp,       \* per path: how often the path was counted as compressed
    x_skip,       \* per path: how often the path was counted as skipped
    x_batch_out,  \* per path: how the batch call holding the path ended
    x_verify      \* per path: the verifications of the path made so far (none or one)

execVars == <<x_plan, x_xp, x_lzx, x_pc, x_groups, x_g, x_batches, x_fut, x_taken,
              x_cur, x_k, x_active, x_stats, x_calls, x_single, x_comp, x_skip,
              x_batch_out, x_verify>>

\* One run of iter_files followed by plan_compression (compression_planner.py)
VARIABLES
    p_kind,         \* per directory of the tree: what the directory policies find
    p_min_savings,  \* the min_savings_percent argument
    p_collect,      \* the collect_entropy argument of iter_files
    p_thorough,     \* the thorough_check argument of plan_compression
    p_pc,           \* "start" | "walking" | "walked" | "planned"
    p_stack,        \* the directories os.walk has still to visit, next first
    p_yielded,      \* the files iter_files has yielded, in order
    p_profiles,     \* per yielded file: what plan_compression met at the file
    p_denied,       \* <<directory, number of files yielded before>> per denial
    p_stats,        \* the CompressionStats fields the walker and the planner update
    p_plan,         \* the list plan_compression returns
    p_walked,       \* the stats as iter_files left them
    p_sampled,      \* the directories plan_compression took an entropy sample of
    p_evaluated,    \* the directories iter_files has put to maybe_skip_directory
    p_again         \* the list a second plan_compression on the same tree returns

planVars == <<p_kind, p_min_savings, p_collect, p_thorough, p_pc, p_stack, p_yielded,
              p_profiles, p_denied, p_stats, p_plan, p_walked, p_sampled, p_evaluated,
              p_again>>

\* One call of get_size_category (compression_planner.py)
VARIABLES
    g_size,       \* the file_size argument
    g_category    \* the label returned, "" before the call

\* One run of compress_directory_legacy (compression_module.py)
VARIABLES
    l_files,      \* what the pass meets at each file os.walk lists, in order
    l_thorough,   \* the thorough_check argument
    l_workers,    \* worker_count, the size of the thread pool
    l_pc,         \* "start" | "branding" | "returned"
    l_targets,    \* targets: indexes into l_files, in order
    l_fut,        \* state of each target's future: "pending" | "running" |
                  \*   "ok" (True) | "failed" (False) | "raised"
    l_taken,      \* the futures as_completed has already handed to the main thread
    l_stats,      \* the LegacyCompressionStats
    l_marks       \* per file: compression calls issued, times counted as branded,
                  \*   times counted as still unmarked

legacyVars == <<l_files, l_thorough, l_workers, l_pc, l_targets, l_fut, l_taken,
                l_stats, l_marks>>

\* One ancestor lookup of the entropy re-filter (compression_planner.py)
VARIABLES
    a_path,       \* the directory argument
    a_base,       \* the base_dir argument
    a_skipped,    \* the keys of skipped_directories
    a_pc,         \* "ready" | "done"
    a_ancestors,  \* the list _ancestors_including_base returned
    a_found,      \* the key whose record _locate_skip_record returned, or None
    a_has         \* what _has_skipped_ancestor returned

ancVars == <<a_path, a_base, a_skipped, a_pc, a_ancestors, a_found, a_has>>

\* One call of sample_directory_entropy (compression/entropy.py)
VARIABLES
    s_kind,       \* per file of the sampled tree: whether it can be read, and its bytes
    s_locked,     \* the directories whose iterdir() raises OSError
    s_max_files,  \* the max_files argument
    s_max_bytes,  \* the max_bytes argument
    s_skip_root,  \* the skip_root_files argument
    s_pc,         \* "while" | "for" | "return" | "done"
    s_pending,    \* the deque of directories still to visit
    s_current,    \* the directory popped last
    s_entries,    \* the entries of s_current the for loop has still to take
    s_files,      \* sampled_files
    s_bytes,      \* sampled_bytes
    s_weighted,   \* weighted_entropy, in hundredths of a bit
    s_visited,    \* the directories popped so far, in order
    s_opened,     \* the files entry.open() was called on so far, in order
    s_result      \* the tuple returned: average_entropy, sampled_files, sampled_bytes

samplerInputs == <<s_kind, s_locked, s_max_files, s_max_bytes, s_skip_root>>

samplerVars == <<samplerInputs, s_pc, s_pending, s_current, s_entries, s_files, s_bytes,
                 s_weighted, s_visited, s_opened, s_result>>

\* One call of should_skip_directory (file_utils.py)
VARIABLES
    k_path,       \* str(directory), a sequence of characters
    k_pc,         \* "ready" | "done"
    k_result      \* the tuple returned: whether to skip, and the reason

protectVars == <<k_path, k_pc, k_result>>

\* One CompressionStats under a sequence of updates (stats.py)
VARIABLES
    t_stats,      \* the CompressionStats
    t_calls       \* the number of updates made

statsVars == <<t_stats, t_calls>>

\* The flags of the interactive launcher (launch.py)
VARIABLES
    l_state,      \* the LaunchState
    l_key,        \* the key of the last toggle, "" before the first
    l_before      \* the LaunchState before the last toggle

launchVars == <<l_state, l_key, l_before>>

\* The parts modelled after the legacy pass
moreVars == <<ancVars, samplerVars, protectVars, statsVars, launchVars>>

\* The parts modelled up to the legacy pass
coreVars == <<fileVars, workerVars, path_len, chunkVars, execVars, planVars, g_size,
              g_category, legacyVars>>

vars == <<coreVars, moreVars>>

\* What the actions of each part leave alone
notFileVars == <<workerVars, path_len, chunkVars, execVars, planVars, g_size, g_category,
    legacyVars, moreVars>>

notWorkerVars == <<fileVars, path_len, chunkVars, execVars, planVars, g_size, g_category,
    legacyVars, moreVars>>

notChunkVars == <<fileVars, workerVars, execVars, planVars, g_size, g_category,
    legacyVars, moreVars>>

notExecVars == <<fileVars, workerVars, path_len, chunkVars, planVars, g_size, g_category,
    legacyVars, moreVars>>

notPlanVars == <<fileVars, workerVars, path_len, chunkVars, execVars, g_size, g_category,
    legacyVars, moreVars>>

notLegacyVars == <<fileVars, workerVars, path_len, chunkVars, execVars, planVars, g_size,
                   g_category, moreVars>>

notAncVars == <<coreVars, samplerVars, protectVars, statsVars, launchVars>>

notSamplerVars == <<coreVars, ancVars, protectVars, statsVars, launchVars>>

notProtectVars == <<coreVars, ancVars, samplerVars, statsVars, launchVars>>

notStatsVars == <<coreVars, ancVars, samplerVars, protectVars, launchVars>>

notLaunchVars == <<coreVars, ancVars, samplerVars, protectVars, statsVars>>

(***************************************************************************)
(* PART 1 - the per-file classifier (file_utils.py).                       *)
(***************************************************************************)

\* config.py: MIN_COMPRESSIBLE_SIZE = 8 * 1024
MIN_COMPRESSIBLE_SIZE == 8192

\* config.py: SKIP_EXTENSIONS, the union of the seven extension groups
SKIP_EXTENSIONS ==
    {".zip", ".rar", ".7z", ".gz", ".xz", ".bz2", ".tar",
     ".iso", ".img", ".squashfs", ".appimage", ".vdi", ".vmdk", ".vhd", ".vhdx",
     ".qcow2", ".qed", ".vpc", ".hdd", ".raw",
     ".jpg", ".jpeg", ".png", ".gif", ".webp", ".bmp", ".heic", ".heif", ".avif",
     ".jxl", ".tiff",
     ".mp4", ".mkv", ".avi", ".mov", ".webm", ".m4v", ".hevc", ".h264", ".h265",
     ".vp8", ".vp9", ".av1", ".wmv", ".flv", ".3gp",
     ".mp3", ".aac", ".ogg", ".m4a", ".opus", ".flac", ".wav", ".wma", ".ac3",
     ".dts", ".alac", ".ape", ".aiff", ".pcm", ".vgz", ".vgm",
     ".gguf", ".h5", ".onnx", ".pb", ".tflite", ".safetensors", ".torch", ".pt",
     ".docx", ".xlsx", ".pptx", ".odt", ".ods", ".pdf"}

\* The suffixes the modelled files carry: deny-listed ones in lower, upper and
\* mixed case, others in lower and upper case, and no suffix at all.
Suffixes == {".jpg", ".JPG", ".Zip", ".txt", ".TXT", ".log", ""}

\* str.lower() on the modelled suffixes
Lower(s) ==
    CASE s = ".JPG" -> ".jpg"
      [] s = ".Zip" -> ".zip"
      [] s = ".TXT" -> ".txt"
      [] OTHER -> s

\* How far the modelled sizes spread around MIN_COMPRESSIBLE_SIZE
SizeSpread == 1

FileSizes == {0} \cup { MIN_COMPRESSIBLE_SIZE + d : d \in (0 - SizeSpread)..SizeSpread }

\* `compact /a` outcomes: a non-zero return code, a report of 0 or 1 files
\* "not compressed", or an exception while running the command
CompactOutcomes == {"rc_fail", "not0", "not1", "exception"}

\* The count printed before " are not compressed" in compact's report
NotCompressedCount(outcome) == IF outcome = "not0" THEN 0 ELSE 1

\* "0 are not" in result.stdout: the count's decimal form ends in 0
HasZeroNotMarker(outcome) == NotCompressedCount(outcome) % 10 = 0

\* file_utils.py check_compression_with_compact
check_compression_with_compact(outcome) ==
    IF outcome = "exception" THEN FALSE
    ELSE IF outcome = "rc_fail" THEN FALSE
    ELSE HasZeroNotMarker(outcome)

\* Mutant: only the allocated size is compared, the status query is never made
is_file_compressed_size_only(size, alloc, stat_ok, getter_ok, compact, thorough) ==
    IF ~stat_ok
    THEN [compressed |-> FALSE, size |-> 0, stats |-> 1, compacts |-> 0]
    ELSE IF ~getter_ok
    THEN [compressed |-> FALSE, size |-> size, stats |-> 1, compacts |-> 0]
    ELSE [compressed |-> alloc < size, size |-> alloc, stats |-> 1, compacts |-> 0]

\* Mutant: the status query is consulted also when thorough_check is false
is_file_compressed_always_thorough(size, alloc, stat_ok, getter_ok, compact, thorough) ==
    IF ~stat_ok
    THEN [compressed |-> FALSE, size |-> 0, stats |-> 1, compacts |-> 0]
    ELSE IF ~getter_ok
    THEN [compressed |-> FALSE, size |-> size, stats |-> 1, compacts |-> 0]
    ELSE IF alloc < size
    THEN [compressed |-> TRUE, size |-> alloc, stats |-> 1, compacts |-> 0]
    ELSE IF alloc = size
    THEN [compressed |-> check_compression_with_compact(compact), size |-> alloc,
          stats |-> 1, compacts |-> 1]
    ELSE [compressed |-> FALSE, size |-> alloc, stats |-> 1, compacts |-> 0]

\* Mutant: a failed GetCompressedFileSizeW is not noticed, the sizes are compared
is_file_compressed_ignores_getter_error(size, alloc, stat_ok, getter_ok, compact, thorough) ==
    IF ~stat_ok
    THEN [compressed |-> FALSE, size |-> 0, stats |-> 1, compacts |-> 0]
    ELSE IF alloc < size
    THEN [compressed |-> TRUE, size |-> alloc, stats |-> 1, compacts |-> 0]
    ELSE [compressed |-> FALSE, size |-> alloc, stats |-> 1, compacts |-> 0]

\* file_utils.py is_file_compressed: the (compressed, size) pair it returns, with
\* the number of stat() calls and of external status queries it made
is_file_compressed(size, alloc, stat_ok, getter_ok, compact, thorough) ==
    IF ~stat_ok
    THEN [compressed |-> FALSE, size |-> 0, stats |-> 1, compacts |-> 0]
    ELSE IF ~getter_ok
    THEN [compressed |-> FALSE, size |-> size, stats |-> 1, compacts |-> 0]
    ELSE IF alloc < size
    THEN [compressed |-> TRUE, size |-> alloc, stats |-> 1, compacts |-> 0]
    ELSE IF thorough /\ alloc = size
    THEN [compressed |-> check_compression_with_compact(compact), size |-> alloc,
          stats |-> 1, compacts |-> 1]
    ELSE [compressed |-> FALSE, size |-> alloc, stats |-> 1, compacts |-> 0]

\* The reasons should_compress_file gives
ReasonExtension == "Skipped due to extension"

ReasonTooSmall == "File too small"

ReasonAlreadyCompressed == "File is already compressed"

ReasonEligible == "File eligible for compression"

ReasonError == "Error during check"

Decision(should, reason, hint, stats, compacts) ==
    [should_compress |-> should, reason |-> reason, size_hint |-> hint,
     stats |-> stats, compacts |-> compacts]

\* Mutant: the suffix is compared as written, without lower-casing
should_compress_file_case_sensitive(suffix, size, alloc, stat_ok, getter_ok, compact, thorough) ==
    IF suffix \in SKIP_EXTENSIONS
    THEN Decision(FALSE, ReasonExtension, 0, 0, 0)
    ELSE IF ~stat_ok[1]
    THEN Decision(FALSE, ReasonError, 0, 1, 0)
    ELSE IF size < MIN_COMPRESSIBLE_SIZE
    THEN Decision(FALSE, ReasonTooSmall, size, 1, 0)
    ELSE LET c == is_file_compressed(size, alloc, stat_ok[2], getter_ok, compact, thorough)
         IN  IF c.compressed
             THEN Decision(FALSE, ReasonAlreadyCompressed, c.size, 1 + c.stats, c.compacts)
             ELSE Decision(TRUE, ReasonEligible, size, 1 + c.stats, c.compacts)

\* Mutant: a too-small file is reported with size hint 0
should_compress_file_small_no_hint(suffix, size, alloc, stat_ok, getter_ok, compact, thorough) ==
    IF Lower(suffix) \in SKIP_EXTENSIONS
    THEN Decision(FALSE, ReasonExtension, 0, 0, 0)
    ELSE IF ~stat_ok[1]
    THEN Decision(FALSE, ReasonError, 0, 1, 0)
    ELSE IF size < MIN_COMPRESSIBLE_SIZE
    THEN Decision(FALSE, ReasonTooSmall, 0, 1, 0)
    ELSE LET c == is_file_compressed(size, alloc, stat_ok[2], getter_ok, compact, thorough)
         IN  IF c.compressed
             THEN Decision(FALSE, ReasonAlreadyCompressed, c.size, 1 + c.stats, c.compacts)
             ELSE Decision(TRUE, ReasonEligible, size, 1 + c.stats, c.compacts)

\* Mutant: the already-compressed check comes before the size check
should_compress_file_compressed_first(suffix, size, alloc, stat_ok, getter_ok, compact, thorough) ==
    IF Lower(suffix) \in SKIP_EXTENSIONS
    THEN Decision(FALSE, ReasonExtension, 0, 0, 0)
    ELSE IF ~stat_ok[1]
    THEN Decision(FALSE, ReasonError, 0, 1, 0)
    ELSE LET c == is_file_compressed(size, alloc, stat_ok[2], getter_ok, compact, thorough)
         IN  IF c.compressed
             THEN Decision(FALSE, ReasonAlreadyCompressed, c.size, 1 + c.stats, c.compacts)
             ELSE IF size < MIN_COMPRESSIBLE_SIZE
             THEN Decision(FALSE, ReasonTooSmall, size, 1 + c.stats, c.compacts)
             ELSE Decision(TRUE, ReasonEligible, size, 1 + c.stats, c.compacts)

\* file_utils.py should_compress_file: the decision, with the number of stat()
\* calls and status queries made on the way.  stat_ok[1] is the outcome of its own
\* stat(), stat_ok[2] that of the stat() inside is_file_compressed.
should_compress_file(suffix, size, alloc, stat_ok, getter_ok, compact, thorough) ==
    IF Lower(suffix) \in SKIP_EXTENSIONS
    THEN Decision(FALSE, ReasonExtension, 0, 0, 0)
    ELSE IF ~stat_ok[1]
    THEN Decision(FALSE, ReasonError, 0, 1, 0)
    ELSE IF size < MIN_COMPRESSIBLE_SIZE
    THEN Decision(FALSE, ReasonTooSmall, size, 1, 0)
    ELSE LET c == is_file_compressed(size, alloc, stat_ok[2], getter_ok, compact, thorough)
         IN  IF c.compressed
             THEN Decision(FALSE, ReasonAlreadyCompressed, c.size, 1 + c.stats, c.compacts)
             ELSE Decision(TRUE, ReasonEligible, size, 1 + c.stats, c.compacts)

NoDecision == Decision(FALSE, "", 0, 0, 0)

NoCompressed == [compressed |-> FALSE, size |-> 0]

InitFile ==
    /\ f_suffix \in Suffixes
    /\ f_size \in FileSizes
    /\ f_alloc \in FileSizes
    /\ f_stat_ok \in {<<a, b>> : a \in BOOLEAN, b \in BOOLEAN}
    /\ f_getter_ok \in BOOLEAN
    /\ f_compact \in CompactOutcomes
    /\ f_thorough \in BOOLEAN
    /\ f_pc = "ready"
    /\ f_decision = NoDecision
    /\ f_compressed = NoCompressed
    /\ f_stat_calls = 0
    /\ f_compact_calls = 0

FileIdle ==
    /\ f_suffix = ""
    /\ f_size = 0
    /\ f_alloc = 0
    /\ f_stat_ok = <<TRUE, TRUE>>
    /\ f_getter_ok = TRUE
    /\ f_compact = "not1"
    /\ f_thorough = FALSE
    /\ f_pc = "idle"
    /\ f_decision = NoDecision
    /\ f_compressed = NoCompressed
    /\ f_stat_calls = 0
    /\ f_compact_calls = 0

\* One call of should_compress_file(file_path, thorough_check)
ShouldCompressFile ==
    /\ f_pc = "ready"
    /\ LET d == should_compress_file(f_suffix, f_size, f_alloc, f_stat_ok,
                                     f_getter_ok, f_compact, f_thorough)
       IN  /\ f_decision' = [should_compress |-> d.should_compress,
                             reason |-> d.reason, size_hint |-> d.size_hint,
                             stats |-> d.stats, compacts |-> d.compacts]
           /\ f_stat_calls' = d.stats
           /\ f_compact_calls' = d.compacts
    /\ f_pc' = "classified"
    /\ UNCHANGED <<f_suffix, f_size, f_alloc, f_stat_ok, f_getter_ok, f_compact,
                   f_thorough, f_compressed>>
    /\ UNCHANGED notFileVars

\* One call of is_file_compressed(file_path, thorough_check)
IsFileCompressed ==
    /\ f_pc = "ready"
    /\ LET c == is_file_compressed(f_size, f_alloc, f_stat_ok[1], f_getter_ok,
                                   f_compact, f_thorough)
       IN  /\ f_compressed' = [compressed |-> c.compressed, size |-> c.size]
           /\ f_stat_calls' = c.stats
           /\ f_compact_calls' = c.compacts
    /\ f_pc' = "queried"
    /\ UNCHANGED <<f_suffix, f_size, f_alloc, f_stat_ok, f_getter_ok, f_compact,
                   f_thorough, f_decision>>
    /\ UNCHANGED notFileVars

NextFile == ShouldCompressFile \/ IsFileCompressed

(***************************************************************************)
(* PART 2 - the worker cap and the worker counts (workers.py).             *)
(***************************************************************************)

\* Largest core count of the modelled CPU topologies
MaxCores == 6

\* Largest worker cap passed to set_worker_cap
MaxCap == 3

CoreCounts == {None} \cup { Some(n) : n \in 1..MaxCores }

CapLimits == {None} \cup { Some(n) : n \in (0 - 1)..MaxCap }

\* Python truthiness of an Optional[int]: `not x`
Falsy(x) == x = None \/ x = Some(0)

\* Mutant: the cap is ignored
apply_worker_cap_ignored(default, limit) == default

\* workers.py _apply_worker_cap, with limit = _WORKER_CAP.get()
apply_worker_cap(default, limit) ==
    IF limit = None THEN default
    ELSE Max(1, Min(default, Val(limit)))

\* workers.py entropy_worker_count
entropy_worker_count(physical, limit) ==
    IF Falsy(physical) \/ Val(physical) <= 1
    THEN apply_worker_cap(1, limit)
    ELSE apply_worker_cap(Max(1, Val(physical) - 1), limit)

\* Mutant: no thread is left free
xp_worker_count_all_threads(logical, limit) ==
    IF Falsy(logical)
    THEN apply_worker_cap(1, limit)
    ELSE apply_worker_cap(Max(1, Val(logical)), limit)

\* workers.py xp_worker_count
xp_worker_count(logical, limit) ==
    IF Falsy(logical)
    THEN apply_worker_cap(1, limit)
    ELSE apply_worker_cap(Max(1, Val(logical) - 1), limit)

\* workers.py lzx_worker_count
lzx_worker_count(physical, logical, limit) ==
    LET cores == IF Falsy(physical) THEN logical ELSE physical
    IN  IF Falsy(cores) \/ Val(cores) <= 4
        THEN apply_worker_cap(1, limit)
        ELSE apply_worker_cap(2, limit)

NoCount == [n |-> 0, cap |-> None]

InitWorkers ==
    /\ w_cap = None
    /\ w_physical \in CoreCounts
    /\ w_logical \in CoreCounts
    /\ w_raised = FALSE
    /\ w_limit = None
    /\ w_xp = NoCount
    /\ w_lzx = NoCount
    /\ w_entropy = NoCount

WorkersIdle ==
    /\ w_cap = None
    /\ w_physical = None
    /\ w_logical = None
    /\ w_raised = FALSE
    /\ w_limit = None
    /\ w_xp = NoCount
    /\ w_lzx = NoCount
    /\ w_entropy = NoCount

\* set_worker_cap with the check after the store
set_worker_cap_stores_first(cap, limit) ==
    [raised |-> limit /= None /\ Val(limit) < 1, cap |-> limit]

\* workers.py set_worker_cap(limit): the outcome and the cap afterwards
set_worker_cap(cap, limit) ==
    IF limit /= None /\ Val(limit) < 1
    THEN [raised |-> TRUE, cap |-> cap]
    ELSE [raised |-> FALSE, cap |-> limit]

\* A call of set_worker_cap(limit)
SetWorkerCap ==
    \E limit \in CapLimits :
        LET r == set_worker_cap(w_cap, limit)
        IN  /\ w_raised' = r.raised
            /\ w_cap' = r.cap
            /\ w_limit' = limit
        /\ UNCHANGED <<w_physical, w_logical, w_xp, w_lzx, w_entropy>>
        /\ UNCHANGED notWorkerVars

\* A call of xp_worker_count()
XpWorkerCount ==
    /\ w_xp' = [n |-> xp_worker_count(w_logical, w_cap), cap |-> w_cap]
    /\ UNCHANGED <<w_cap, w_physical, w_logical, w_raised, w_limit, w_lzx, w_entropy>>
    /\ UNCHANGED notWorkerVars

\* A call of lzx_worker_count()
LzxWorkerCount ==
    /\ w_lzx' = [n |-> lzx_worker_count(w_physical, w_logical, w_cap), cap |-> w_cap]
    /\ UNCHANGED <<w_cap, w_physical, w_logical, w_raised, w_limit, w_xp, w_entropy>>
    /\ UNCHANGED notWorkerVars

\* A call of entropy_worker_count()
EntropyWorkerCount ==
    /\ w_entropy' = [n |-> entropy_worker_count(w_physical, w_cap), cap |-> w_cap]
    /\ UNCHANGED <<w_cap, w_physical, w_logical, w_raised, w_limit, w_xp, w_lzx>>
    /\ UNCHANGED notWorkerVars

NextWorkers == SetWorkerCap \/ XpWorkerCount \/ LzxWorkerCount \/ EntropyWorkerCount

(***************************************************************************)
(* PART 3 - the batch chunker (compression_executor.py, _chunk).           *)
(***************************************************************************)

\* compression_executor.py: _BATCH_SIZE = 100
BATCH_SIZE == 100

\* compression_executor.py: _MAX_COMMAND_CHARS = 4000
MAX_COMMAND_CHARS == 4000

\* Mutant: the file count is compared with > instead of >=
chunk_flush_count_late(n_current, current_length, path_length, size) ==
    n_current > 0 /\ (n_current > size \/ current_length + path_length > MAX_COMMAND_CHARS)

\* Mutant: the length of the batch is tested without the incoming path
chunk_flush_length_late(n_current, current_length, path_length, size) ==
    n_current > 0 /\ (n_current >= size \/ current_length > MAX_COMMAND_CHARS)

\* _chunk: the test that closes the current batch before an entry is added
\*   if current and (len(current) >= size or
\*                   current_length + path_length > _MAX_COMMAND_CHARS)
chunk_flush(n_current, current_length, path_length, size) ==
    n_current > 0 /\ (n_current >= size \/ current_length + path_length > MAX_COMMAND_CHARS)

\* _chunk: path_length = len(str(path.resolve())) + 3
QuotedLength(path) == path_len[path] + 3

\* _chunk before its loop: current = [], current_length = 0, nothing yielded
ChunkStart == [current |-> <<>>, current_length |-> 0, batches |-> <<>>]

\* _chunk: one iteration of `for path, file_size in entries`; st.batches are the
\* batches yielded so far
chunk_step(st, entry, size) ==
    LET path_length == QuotedLength(entry[1])
    IN  IF chunk_flush(Len(st.current), st.current_length, path_length, size)
        THEN [current |-> <<entry>>,
              current_length |-> path_length,
              batches |-> Append(st.batches, st.current)]
        ELSE [current |-> Append(st.current, entry),
              current_length |-> st.current_length + path_length,
              batches |-> st.batches]

\* Mutant: the batch still open after the loop is not yielded
chunk_end_forgets_last(st) == st.batches

\* _chunk after its loop: `if current: yield current`
chunk_end(st) ==
    IF st.current /= <<>> THEN Append(st.batches, st.current) ELSE st.batches

\* _chunk: the loop over entries[i..]
RECURSIVE chunk_loop(_, _, _, _)
chunk_loop(entries, size, i, st) ==
    IF i > Len(entries) THEN st
    ELSE chunk_loop(entries, size, i + 1, chunk_step(st, entries[i], size))

\* list(_chunk(entries, size)): the batches in the order they are yielded
chunk(entries, size) == chunk_end(chunk_loop(entries, size, 1, ChunkStart))

\* Longest list of short paths handed to the chunker
MaxEntries == 102

\* Longest list of paths of any length handed to the chunker
MaxMixed == 5

\* The lists alternate between two path lengths with a period of up to MaxPeriod
MaxPeriod == 2

\* Resolved lengths of short paths: 100 paths of 17 (+3) characters stay far
\* below the budget, 100 paths of 38 (+3) characters exceed it
ShortLengths == {17, 38}

\* Resolved path lengths: short paths, paths of which exactly four fill the
\* budget (997 + 3 = 1000), paths just above that, and long paths (Windows allows
\* up to 32767 characters) at the budget (3997 + 3) and above it (3998 + 3)
PathLengths == {17, 997, 998, 3997, 3998}

\* The list of n entries whose i-th path has length l2 when k divides i, else l1
InitChunkWith(n, l1, l2, k) ==
    /\ c_entries = [i \in 1..n |-> <<i, MIN_COMPRESSIBLE_SIZE>>]
    /\ path_len = [i \in 1..n |-> IF i % k = 0 THEN l2 ELSE l1]
    /\ c_i = 1
    /\ c_state = ChunkStart
    /\ c_batches = <<>>
    /\ c_pc = "loop"

InitChunk ==
    \/ \E n \in 0..MaxEntries, l1 \in ShortLengths, l2 \in ShortLengths, k \in 1..MaxPeriod :
            InitChunkWith(n, l1, l2, k)
    \/ \E n \in 0..MaxMixed, l1 \in PathLengths, l2 \in PathLengths, k \in 1..MaxPeriod :
            InitChunkWith(n, l1, l2, k)

ChunkIdle ==
    /\ c_entries = <<>>
    /\ c_i = 0
    /\ c_state = ChunkStart
    /\ c_batches = <<>>
    /\ c_pc = "idle"

\* _chunk: the loop takes the next entry
ChunkEntry ==
    /\ c_pc = "loop"
    /\ c_i <= Len(c_entries)
    /\ c_state' = chunk_step(c_state, c_entries[c_i], BATCH_SIZE)
    /\ c_i' = c_i + 1
    /\ UNCHANGED <<c_entries, c_batches, c_pc, path_len>>
    /\ UNCHANGED notChunkVars

\* _chunk: the loop is over, the last batch is yielded;
\* batches = list(_chunk(entries, _BATCH_SIZE)) is complete
ChunkEnd ==
    /\ c_pc = "loop"
    /\ c_i > Len(c_entries)
    /\ c_batches' = chunk_end(c_state)
    /\ c_pc' = "chunked"
    /\ UNCHANGED <<c_entries, c_i, c_state, path_len>>
    /\ UNCHANGED notChunkVars

NextChunk == ChunkEntry \/ ChunkEnd

(***************************************************************************)
(* PART 4 - the execution scheduler (compression_executor.py,              *)
(* execute_compression_plan).  The pool's worker threads run              *)
(* _compact_batch; everything else runs in the calling thread.             *)
(***************************************************************************)

\* config.py SIZE_THRESHOLDS
SIZE_THRESHOLDS == << <<65536, "tiny">>, <<262144, "small">>, <<1048576, "medium">> >>

\* config.py COMPRESSION_ALGORITHMS
COMPRESSION_ALGORITHMS ==
    [tiny |-> "XPRESS4K", small |-> "XPRESS8K", medium |-> "XPRESS16K", large |-> "LZX"]

\* Mutant: bisect_left, the number of breaks that are < file_size
get_size_category_bisect_left(file_size) ==
    LET index == Cardinality({ i \in 1..Len(SIZE_THRESHOLDS) :
                                 SIZE_THRESHOLDS[i][1] < file_size })
    IN  IF index < Len(SIZE_THRESHOLDS) THEN SIZE_THRESHOLDS[index + 1][2] ELSE "large"

\* compression_planner.py get_size_category; bisect_right(breaks, file_size) is the
\* number of breaks that are <= file_size
get_size_category(file_size) ==
    LET index == Cardinality({ i \in 1..Len(SIZE_THRESHOLDS) :
                                 SIZE_THRESHOLDS[i][1] <= file_size })
    IN  IF index < Len(SIZE_THRESHOLDS) THEN SIZE_THRESHOLDS[index + 1][2] ELSE "large"

\* How far the sizes handed to get_size_category spread around each threshold
CategorySpread == 20

\* An empty file, the sizes around every threshold, and a file far above the last
CategorySizes ==
    {0, 4 * SIZE_THRESHOLDS[Len(SIZE_THRESHOLDS)][1]}
      \cup { SIZE_THRESHOLDS[i][1] + d :
               i \in 1..Len(SIZE_THRESHOLDS), d \in (0 - CategorySpread)..CategorySpread }

CategoryIdle == g_size = 0 /\ g_category = "idle"

\* One call of get_size_category(file_size)
GetSizeCategory ==
    /\ g_category = ""
    /\ g_category' = get_size_category(g_size)
    /\ UNCHANGED <<g_size, fileVars, workerVars, path_len, chunkVars, execVars, planVars,
                   legacyVars, moreVars>>

\* The CompressionStats fields the executor updates, as CompressionStats() sets them
NoStats ==
    [compressed_files |-> 0, skipped_files |-> 0, total_compressed_size |-> 0,
     total_skipped_size |-> 0, errors |-> <<>>, locked |-> 0]

\* Mutant: the error list is appended to without taking the lock
record_error_unlocked(stats, message) == [stats EXCEPT !.errors = Append(@, message)]

\* _record_error; locked counts the `with stats_lock` blocks entered
record_error(stats, message) ==
    [stats EXCEPT !.locked = @ + 1,
                  !.errors = Append(@, message)]

\* _record_success
record_success(stats, compressed_size) ==
    [stats EXCEPT !.locked = @ + 1,
                  !.compressed_files = @ + 1,
                  !.total_compressed_size = @ + compressed_size]

\* Mutant: a failure is counted but its original size is not credited
record_failure_no_credit(stats, file_size) ==
    [stats EXCEPT !.locked = @ + 1,
                  !.skipped_files = @ + 1]

\* Mutant: the size totals are assigned, not added to
record_failure_overwrites(stats, file_size) ==
    [stats EXCEPT !.locked = @ + 1,
                  !.skipped_files = @ + 1,
                  !.total_compressed_size = file_size,
                  !.total_skipped_size = file_size]

\* _record_failure
record_failure(stats, file_size) ==
    [stats EXCEPT !.locked = @ + 1,
                  !.skipped_files = @ + 1,
                  !.total_compressed_size = @ + file_size,
                  !.total_skipped_size = @ + file_size]

\* What the verification of a file meets: whether is_file_compressed raises
\* OSError, whether stat() and GetCompressedFileSizeW succeed, whether the file
\* shrank.  The runs draw from: shrank, did not shrink, raised.
Verification(raises, stat_ok, getter_ok, shrunk) ==
    [raises |-> raises, stat_ok |-> stat_ok, getter_ok |-> getter_ok, shrunk |-> shrunk]

Verifications ==
    { Verification(FALSE, TRUE, TRUE, TRUE),
      Verification(FALSE, TRUE, TRUE, FALSE),
      Verification(TRUE, TRUE, TRUE, FALSE) }

\* The allocated size of a file of the given size after compact ran on it
AllocAfter(size, v) == IF v.shrunk THEN size \div 2 ELSE size

\* Mutant: a file whose verification shows no size reduction is counted as skipped
finalize_success_requires_shrink(stats, path, fallback_size, v) ==
    IF v.raises
    THEN record_success(record_error(stats, <<"verify", path>>), fallback_size)
    ELSE IF ~is_file_compressed(fallback_size, AllocAfter(fallback_size, v),
                                v.stat_ok, v.getter_ok, "rc_fail", FALSE).compressed
    THEN record_failure(stats, fallback_size)
    ELSE record_success(stats,
             is_file_compressed(fallback_size, AllocAfter(fallback_size, v),
                                v.stat_ok, v.getter_ok, "rc_fail", FALSE).size)

\* Mutant: a file whose verification raises is recorded as an error and skipped
finalize_success_error_skips(stats, path, fallback_size, v) ==
    IF v.raises
    THEN record_failure(record_error(stats, <<"verify", path>>), fallback_size)
    ELSE record_success(stats,
             is_file_compressed(fallback_size, AllocAfter(fallback_size, v),
                                v.stat_ok, v.getter_ok, "rc_fail", FALSE).size)

\* _finalize_success
finalize_success(stats, path, fallback_size, v) ==
    IF v.raises
    THEN record_success(record_error(stats, <<"verify", path>>), fallback_size)
    ELSE record_success(stats,
             is_file_compressed(fallback_size, AllocAfter(fallback_size, v),
                                v.stat_ok, v.getter_ok, "rc_fail", FALSE).size)

\* How one `compact /c` call on a single file ends: return code 0, another return
\* code, or OSError / SubprocessError
CallResults == {"rc0", "rc1", "oserror"}

\* compress_file: True exactly when compact returned 0
compress_file(result) == result = "rc0"

\* Mutant: a file of a failed batch is counted as skipped whatever its own call did
compress_single_blanket(stats, path, file_size, result, v) ==
    record_failure(stats, file_size)

\* Mutant: a failed single-file call returns without recording the file
compress_single_drops_failure(stats, path, file_size, result, v) ==
    IF ~compress_file(result)
    THEN stats
    ELSE finalize_success(stats, path, file_size, v)

\* _compress_single, after the compress_file call it starts has ended with `result`
compress_single(stats, path, file_size, result, v) ==
    IF ~compress_file(result)
    THEN record_failure(stats, file_size)
    ELSE finalize_success(stats, path, file_size, v)

\* The keys of `grouped` after the first i plan entries, in insertion order
RECURSIVE first_seen(_, _)
first_seen(plan, i) ==
    IF i = 0 THEN <<>>
    ELSE LET before == first_seen(plan, i - 1)
         IN  IF \E j \in 1..Len(before) : before[j] = plan[i][3]
             THEN before
             ELSE Append(before, plan[i][3])

\* grouped[algorithm]: the (path, size) pairs of the algorithm, in plan order
entries_of(plan, algorithm) ==
    LET sel == SelectSeq(plan, LAMBDA e : e[3] = algorithm)
    IN  [j \in 1..Len(sel) |-> <<sel[j][1], sel[j][2]>>]

\* grouped.items()
grouped(plan) ==
    LET keys == first_seen(plan, Len(plan))
    IN  [g \in 1..Len(keys) |-> <<keys[g], entries_of(plan, keys[g])>>]

\* Mutant: every group gets the lightweight worker count
workers_for_always_xp(algorithm, xp_workers, lzx_workers) == xp_workers

\* workers = lzx_workers if algorithm == 'LZX' else xp_workers
workers_for(algorithm, xp_workers, lzx_workers) ==
    IF algorithm = "LZX" THEN lzx_workers ELSE xp_workers

\* Longest plan handed to the executor
MaxPlan == 2

\* Largest worker count handed to the executor
MaxWorkers == 2

\* File sizes of plan entries: a tiny file and a large one
PlanSizes == {MIN_COMPRESSIBLE_SIZE, 1048576}

\* Resolved path lengths of a plan's files: many fit one batch (100), two fill a
\* batch exactly (1997 + 3 = 2000), each needs its own batch (3000)
ExecPathLengths == {100, 1997, 3000}

\* How a _compact_batch call ends: return code 0, another return code, or an
\* exception
BatchOutcomes == {"ok", "failed", "raised"}

InitExec ==
    \E n \in 0..MaxPlan, l \in ExecPathLengths, xp \in 1..MaxWorkers, lzx \in 1..MaxWorkers :
      \E sizes \in [1..n -> PlanSizes] :
        /\ x_plan = [i \in 1..n |->
                       <<i, sizes[i], COMPRESSION_ALGORITHMS[get_size_category(sizes[i])]>>]
        /\ path_len = [i \in 1..n |-> l]
        /\ x_xp = xp
        /\ x_lzx = lzx
        /\ x_pc = "start"
        /\ x_groups = <<>>
        /\ x_g = 0
        /\ x_batches = <<>>
        /\ x_fut = <<>>
        /\ x_taken = {}
        /\ x_cur = 0
        /\ x_k = 0
        /\ x_active = 0
        /\ x_stats = NoStats
        /\ x_calls = [i \in 1..n |-> 0]
        /\ x_single = [i \in 1..n |-> "none"]
        /\ x_comp = [i \in 1..n |-> 0]
        /\ x_skip = [i \in 1..n |-> 0]
        /\ x_batch_out = [i \in 1..n |-> "none"]
        /\ x_verify = [i \in 1..n |-> {}]

ExecIdle ==
    /\ x_plan = <<>>
    /\ x_xp = 1
    /\ x_lzx = 1
    /\ x_pc = "idle"
    /\ x_groups = <<>>
    /\ x_g = 0
    /\ x_batches = <<>>
    /\ x_fut = <<>>
    /\ x_taken = {}
    /\ x_cur = 0
    /\ x_k = 0
    /\ x_active = 0
    /\ x_stats = NoStats
    /\ x_calls = <<>>
    /\ x_single = <<>>
    /\ x_comp = <<>>
    /\ x_skip = <<>>
    /\ x_batch_out = <<>>
    /\ x_verify = <<>>

\* The inputs of a run and the per-path history that no step of the pool changes
execInputs == <<x_plan, x_xp, x_lzx, path_len>>

execHistory == <<x_calls, x_single, x_comp, x_skip, x_verify>>

\* The body of `for algorithm, entries in grouped.items()` up to the submission of
\* every batch of group g to a fresh pool
SubmitGroup(groups, g) ==
    LET batches == chunk(groups[g][2], BATCH_SIZE)
    IN  /\ x_g' = g
        /\ x_batches' = batches
        /\ x_fut' = [b \in 1..Len(batches) |-> "pending"]
        /\ x_taken' = {}

\* execute_compression_plan up to the first as_completed: the early return on an
\* empty plan, the grouping, and the submission of the first group
ExecBegin ==
    /\ x_pc = "start"
    /\ IF Len(x_plan) = 0
       THEN /\ x_pc' = "returned"
            /\ UNCHANGED <<x_groups, x_g, x_batches, x_fut, x_taken>>
       ELSE /\ x_pc' = "group"
            /\ x_groups' = grouped(x_plan)
            /\ SubmitGroup(grouped(x_plan), 1)
    /\ UNCHANGED <<x_cur, x_k, x_active, x_stats, x_batch_out>>
    /\ UNCHANGED <<execInputs, execHistory>>
    /\ UNCHANGED notExecVars

\* The number of _compact_batch calls in progress
Running == Cardinality({ b \in 1..Len(x_fut) : x_fut[b] = "running" })

\* A pool thread takes the oldest queued batch and starts _compact_batch on it; the
\* pool has at most max_workers = workers threads
WorkerStart ==
    /\ x_pc = "group"
    /\ Running < workers_for(x_groups[x_g][1], x_xp, x_lzx)
    /\ \E b \in 1..Len(x_fut) :
         /\ x_fut[b] = "pending"
         /\ \A j \in 1..(b - 1) : x_fut[j] /= "pending"
         /\ x_fut' = [x_fut EXCEPT ![b] = "running"]
    /\ UNCHANGED <<x_pc, x_groups, x_g, x_batches, x_taken, x_cur, x_k, x_active,
                   x_stats, x_batch_out>>
    /\ UNCHANGED <<execInputs, execHistory>>
    /\ UNCHANGED notExecVars

\* A _compact_batch call returns or raises; its future is done
WorkerFinish ==
    /\ x_pc = "group"
    /\ \E b \in 1..Len(x_fut), outcome \in BatchOutcomes :
         /\ x_fut[b] = "running"
         /\ x_fut' = [x_fut EXCEPT ![b] = outcome]
    /\ UNCHANGED <<x_pc, x_groups, x_g, x_batches, x_taken, x_cur, x_k, x_active,
                   x_stats, x_batch_out>>
    /\ UNCHANGED <<execInputs, execHistory>>
    /\ UNCHANGED notExecVars

\* as_completed hands a finished future to the main thread, future.result() returns
\* or raises
TakeFuture ==
    /\ x_pc = "group"
    /\ x_cur = 0
    /\ \E b \in 1..Len(x_fut) :
         /\ b \notin x_taken
         /\ x_fut[b] \in BatchOutcomes
         /\ x_cur' = b
         /\ x_k' = 1
         /\ x_taken' = x_taken \cup {b}
         /\ x_batch_out' = [p \in DOMAIN x_batch_out |->
                              IF \E j \in 1..Len(x_batches[b]) : x_batches[b][j][1] = p
                              THEN x_fut[b]
                              ELSE x_batch_out[p]]
    /\ UNCHANGED <<x_pc, x_groups, x_g, x_batches, x_fut, x_active, x_stats>>
    /\ UNCHANGED <<execInputs, execHistory>>
    /\ UNCHANGED notExecVars

\* The file of the current batch the main thread is at: <<path, file_size>>
CurrentEntry == x_batches[x_cur][x_k]

\* The main thread moves to the next file of the batch, or past the batch
\* (`continue`, back to as_completed)
AdvanceInBatch ==
    IF x_k < Len(x_batches[x_cur])
    THEN x_k' = x_k + 1 /\ x_cur' = x_cur
    ELSE x_k' = 0 /\ x_cur' = 0

\* The stats changed from x_stats to stats on behalf of path: what path was counted as
Credit(path, stats) ==
    /\ x_stats' = stats
    /\ x_comp' = [x_comp EXCEPT ![path] = @ + stats.compressed_files - x_stats.compressed_files]
    /\ x_skip' = [x_skip EXCEPT ![path] = @ + stats.skipped_files - x_stats.skipped_files]

\* A successful batch: _finalize_success(path, file_size, algorithm, 'batch') for its
\* next file
FinalizeBatchFile ==
    /\ x_pc = "group"
    /\ x_cur /= 0
    /\ x_fut[x_cur] = "ok"
    /\ \E v \in Verifications :
         /\ Credit(CurrentEntry[1],
                   finalize_success(x_stats, CurrentEntry[1], CurrentEntry[2], v))
         /\ x_verify' = [x_verify EXCEPT ![CurrentEntry[1]] = {v}]
    /\ AdvanceInBatch
    /\ UNCHANGED <<x_pc, x_groups, x_g, x_batches, x_fut, x_taken, x_active,
                   x_batch_out, x_calls, x_single>>
    /\ UNCHANGED execInputs
    /\ UNCHANGED notExecVars

\* A batch that raised or returned non-zero: for its next file, _record_error when
\* the batch raised, then _compress_single starts its compress_file call
SingleBegin ==
    /\ x_pc = "group"
    /\ x_cur /= 0
    /\ x_fut[x_cur] \in {"failed", "raised"}
    /\ x_active = 0
    /\ x_stats' = IF x_fut[x_cur] = "raised"
                  THEN record_error(x_stats, <<"batch", CurrentEntry[1]>>)
                  ELSE x_stats
    /\ x_active' = CurrentEntry[1]
    /\ x_calls' = [x_calls EXCEPT ![CurrentEntry[1]] = @ + 1]
    /\ UNCHANGED <<x_pc, x_groups, x_g, x_batches, x_fut, x_taken, x_cur, x_k,
                   x_batch_out, x_single, x_comp, x_skip, x_verify>>
    /\ UNCHANGED execInputs
    /\ UNCHANGED notExecVars

\* The compress_file call ends and _compress_single records the file
SingleEnd ==
    /\ x_pc = "group"
    /\ x_active /= 0
    /\ \E result \in CallResults, v \in Verifications :
         /\ Credit(x_active,
                   compress_single(x_stats, x_active, CurrentEntry[2], result, v))
         /\ x_single' = [x_single EXCEPT ![x_active] = result]
         /\ x_verify' = IF compress_file(result)
                        THEN [x_verify EXCEPT ![x_active] = {v}]
                        ELSE x_verify
    /\ x_active' = 0
    /\ AdvanceInBatch
    /\ UNCHANGED <<x_pc, x_groups, x_g, x_batches, x_fut, x_taken, x_batch_out, x_calls>>
    /\ UNCHANGED execInputs
    /\ UNCHANGED notExecVars

\* Mutant: the outer loop goes on as soon as the main thread is idle, without
\* waiting for the futures that have not completed
GroupEndNoWait ==
    /\ x_pc = "group"
    /\ x_cur = 0
    /\ IF x_g < Len(x_groups)
       THEN SubmitGroup(x_groups, x_g + 1) /\ x_pc' = x_pc
       ELSE x_pc' = "returned" /\ UNCHANGED <<x_g, x_batches, x_fut, x_taken>>
    /\ UNCHANGED <<x_groups, x_cur, x_k, x_active, x_stats, x_batch_out>>
    /\ UNCHANGED <<execInputs, execHistory>>
    /\ UNCHANGED notExecVars

\* as_completed is exhausted and the pool shut down: the outer loop submits the next
\* group, or execute_compression_plan returns
GroupEnd ==
    /\ x_pc = "group"
    /\ x_cur = 0
    /\ x_taken = 1..Len(x_batches)
    /\ IF x_g < Len(x_groups)
       THEN SubmitGroup(x_groups, x_g + 1) /\ x_pc' = x_pc
       ELSE x_pc' = "returned" /\ UNCHANGED <<x_g, x_batches, x_fut, x_taken>>
    /\ UNCHANGED <<x_groups, x_cur, x_k, x_active, x_stats, x_batch_out>>
    /\ UNCHANGED <<execInputs, execHistory>>
    /\ UNCHANGED notExecVars

NextExec ==
    \/ ExecBegin
    \/ WorkerStart
    \/ WorkerFinish
    \/ TakeFuture
    \/ FinalizeBatchFile
    \/ SingleBegin
    \/ SingleEnd
    \/ GroupEnd

(***************************************************************************)
(* PART 5 - the directory walker and the planner                           *)
(* (compression_planner.py, skip_logic.py, stats.py).  A path is the       *)
(* sequence of its parts; <<>> is the filesystem root, its own parent.     *)
(***************************************************************************)

\* Path.parent
Parent(path) == IF path = <<>> THEN <<>> ELSE SubSeq(path, 1, Len(path) - 1)

\* directory is a proper ancestor of path
Under(path, directory) ==
    Len(directory) < Len(path) /\ SubSeq(path, 1, Len(directory)) = directory

\* The root of the run and the tree below it: two sub-directories, one of them
\* with a sub-directory of its own, and one file in every directory
BaseDir == <<1>>

TreeDirs == { <<1>>, <<1, 1>>, <<1, 2>>, <<1, 1, 1>> }

TreeFiles == { <<1, 9>>, <<1, 1, 9>>, <<1, 2, 9>>, <<1, 1, 1, 9>> }

\* The entries of entries_set that lie directly in directory, by name
Listing(entries_set, directory) ==
    LET inside == { e \in entries_set : Len(e) > 0 /\ Parent(e) = directory /\ e /= directory }
    IN  [i \in 1..Cardinality(inside) |->
            CHOOSE e \in inside :
                Cardinality({ o \in inside : o[Len(o)] < e[Len(e)] }) = i - 1]

\* What the policies find for a directory: nothing ("plain": a sample that
\* promises high savings), a protected path, a cache directory, a sample that
\* promises low savings ("dense"), or no usable sample ("unsampled")
DirKinds == {"plain", "system", "cache", "dense", "unsampled"}

\* Directories that more than one policy denies
MixedKinds == {"system+cache", "system+dense", "cache+dense", "system+cache+dense"}

\* file_utils.py should_skip_directory: the path is a protected directory or lies
\* below one
should_skip_directory(directory) ==
    p_kind[directory] \in {"system", "system+cache", "system+dense", "system+cache+dense"}

\* skip_logic.py _cache_directory_reason is not None
cache_directory_reason(directory) ==
    p_kind[directory] \in {"cache", "system+cache", "cache+dense", "system+cache+dense"}

\* savings_from_entropy(average_entropy) of sample_directory_entropy(directory);
\* None when average_entropy is None, sampled_files == 0 or sampled_bytes < 1024
estimated_savings(directory) ==
    CASE p_kind[directory] = "unsampled" -> None
      [] p_kind[directory] \in {"dense", "system+dense", "cache+dense", "system+cache+dense"}
           -> Some(10)
      [] OTHER -> Some(90)

\* CompressionStats() as far as the walker and the planner use it
NewPlanStats ==
    [skipped_files |-> 0, already_compressed_files |-> 0, total_original_size |-> 0,
     total_compressed_size |-> 0, total_skipped_size |-> 0, errors |-> <<>>,
     directory_skips |-> <<>>, file_skips |-> <<>>, skip_extension_files |-> 0,
     skip_low_savings_files |-> 0]

\* DirectorySkipRecord
DirectorySkipRecord(directory, category) == [path |-> directory, category |-> category]

\* skip_logic.py append_directory_skip_record
append_directory_skip_record(stats, record) ==
    [stats EXCEPT !.directory_skips = Append(@, record)]

\* Mutant: a directory that could not be sampled is taken to save nothing
evaluate_entropy_directory_null_is_zero(directory, base_dir, min_savings_percent) ==
    IF directory = base_dir THEN None
    ELSE IF estimated_savings(directory) /= None
            /\ Val(estimated_savings(directory)) >= min_savings_percent THEN None
    ELSE Some(DirectorySkipRecord(directory, "high_entropy"))

\* Mutant: base_dir is sampled and judged like every other directory
evaluate_entropy_directory_judges_base(directory, base_dir, min_savings_percent) ==
    IF estimated_savings(directory) = None THEN None
    ELSE IF Val(estimated_savings(directory)) >= min_savings_percent THEN None
    ELSE Some(DirectorySkipRecord(directory, "high_entropy"))

\* skip_logic.py evaluate_entropy_directory: None or {record}
evaluate_entropy_directory(directory, base_dir, min_savings_percent) ==
    IF directory = base_dir THEN None
    ELSE IF estimated_savings(directory) = None THEN None
    ELSE IF Val(estimated_savings(directory)) >= min_savings_percent THEN None
    ELSE Some(DirectorySkipRecord(directory, "high_entropy"))

\* Mutant: a denial is recorded but the directory is not reported as skipped
maybe_skip_directory_record_only(directory, base_dir, stats, collect_entropy, min_savings_percent) ==
    IF should_skip_directory(directory)
    THEN [skip |-> FALSE,
          stats |-> append_directory_skip_record(stats, DirectorySkipRecord(directory, "system"))]
    ELSE IF cache_directory_reason(directory)
    THEN [skip |-> FALSE,
          stats |-> append_directory_skip_record(stats, DirectorySkipRecord(directory, "cache"))]
    ELSE [skip |-> FALSE, stats |-> stats]

\* Mutant: the cache heuristic is asked before the protected-path policy
maybe_skip_directory_cache_first(directory, base_dir, stats, collect_entropy, min_savings_percent) ==
    IF cache_directory_reason(directory)
    THEN [skip |-> TRUE,
          stats |-> append_directory_skip_record(stats, DirectorySkipRecord(directory, "cache"))]
    ELSE IF should_skip_directory(directory)
    THEN [skip |-> TRUE,
          stats |-> append_directory_skip_record(stats, DirectorySkipRecord(directory, "system"))]
    ELSE IF ~collect_entropy
    THEN [skip |-> FALSE, stats |-> stats]
    ELSE LET entropy_record ==
                 evaluate_entropy_directory(directory, base_dir, min_savings_percent)
         IN  IF entropy_record /= None
             THEN [skip |-> TRUE,
                   stats |-> append_directory_skip_record(stats, Val(entropy_record))]
             ELSE [skip |-> FALSE, stats |-> stats]

\* skip_logic.py maybe_skip_directory: the decision and the stats it leaves
maybe_skip_directory(directory, base_dir, stats, collect_entropy, min_savings_percent) ==
    IF should_skip_directory(directory)
    THEN [skip |-> TRUE,
          stats |-> append_directory_skip_record(stats, DirectorySkipRecord(directory, "system"))]
    ELSE IF cache_directory_reason(directory)
    THEN [skip |-> TRUE,
          stats |-> append_directory_skip_record(stats, DirectorySkipRecord(directory, "cache"))]
    ELSE IF ~collect_entropy
    THEN [skip |-> FALSE, stats |-> stats]
    ELSE LET entropy_record ==
                 evaluate_entropy_directory(directory, base_dir, min_savings_percent)
         IN  IF entropy_record /= None
             THEN [skip |-> TRUE,
                   stats |-> append_directory_skip_record(stats, Val(entropy_record))]
             ELSE [skip |-> FALSE, stats |-> stats]

\* iter_files: the loop over dirnames[i..]; acc holds new_dirnames and the stats
RECURSIVE filter_dirnames(_, _, _)
filter_dirnames(dirnames, i, acc) ==
    IF i > Len(dirnames) THEN acc
    ELSE LET decision == maybe_skip_directory(dirnames[i], BaseDir, acc.stats,
                                              p_collect, p_min_savings)
         IN  filter_dirnames(dirnames, i + 1,
                 [new_dirnames |-> IF decision.skip THEN acc.new_dirnames
                                   ELSE Append(acc.new_dirnames, dirnames[i]),
                  stats |-> decision.stats])

\* The denials that turned the stats `before` into `after`, each with the number of
\* files yielded before it
NewDenials(before, after) ==
    [j \in 1..(Len(after.directory_skips) - Len(before.directory_skips)) |->
        <<after.directory_skips[Len(before.directory_skips) + j].path, Len(p_yielded)>>]

\* The reasons the planner gives besides those of should_compress_file
ReasonProcessing == "Error processing file"

ReasonHighEntropy == "High entropy"

\* stats.py _classify_skip with category = None, on the reasons that occur:
\* 'extension' is part of ReasonExtension only, 'high entropy' of ReasonHighEntropy
classify_skip(reason, already_compressed) ==
    IF already_compressed THEN "already_compressed"
    ELSE IF reason = ReasonExtension THEN "extension"
    ELSE IF reason = ReasonHighEntropy THEN "high_entropy"
    ELSE "generic"

\* Mutant: the category is taken from the reason whatever already_compressed is
record_file_skip_counts_both(stats, file_path, reason, size_hint, original_size, already_compressed) ==
    LET resolved_hint == IF size_hint > 0 THEN size_hint ELSE original_size
        resolved_category == classify_skip(reason, FALSE)
    IN  [stats EXCEPT
           !.skipped_files = @ + 1,
           !.total_compressed_size = IF resolved_hint > 0 THEN @ + resolved_hint ELSE @,
           !.total_skipped_size = IF original_size > 0 THEN @ + original_size ELSE @,
           !.already_compressed_files = IF already_compressed THEN @ + 1 ELSE @,
           !.skip_extension_files = IF resolved_category = "extension" THEN @ + 1 ELSE @,
           !.skip_low_savings_files = IF resolved_category = "high_entropy" THEN @ + 1 ELSE @,
           !.file_skips = Append(@, [path |-> file_path, reason |-> reason,
                                     category |-> resolved_category])]

\* stats.py CompressionStats.record_file_skip
record_file_skip(stats, file_path, reason, size_hint, original_size, already_compressed) ==
    LET resolved_hint == IF size_hint > 0 THEN size_hint ELSE original_size
        resolved_category == classify_skip(reason, already_compressed)
    IN  [stats EXCEPT
           !.skipped_files = @ + 1,
           !.total_compressed_size = IF resolved_hint > 0 THEN @ + resolved_hint ELSE @,
           !.total_skipped_size = IF original_size > 0 THEN @ + original_size ELSE @,
           !.already_compressed_files = IF already_compressed THEN @ + 1 ELSE @,
           !.skip_extension_files = IF resolved_category = "extension" THEN @ + 1 ELSE @,
           !.skip_low_savings_files = IF resolved_category = "high_entropy" THEN @ + 1 ELSE @,
           !.file_skips = Append(@, [path |-> file_path, reason |-> reason,
                                     category |-> resolved_category])]

\* What plan_compression meets at a file: the inputs of should_compress_file, and
\* whether its own stat() and the stat() of its error branch succeed
FileProfile(suffix, size, alloc, present, compact) ==
    [suffix |-> suffix, size |-> size, alloc |-> alloc, stat_ok |-> <<present, present>>,
     getter_ok |-> TRUE, compact |-> compact, plan_stat_ok |-> present,
     fallback_stat_ok |-> present]

\* An eligible file, a file with a deny-listed extension, a file of the first size
\* of the last size category that only the status query reports as compressed, a
\* file that has vanished, and a file whose stat() fails once in plan_compression
\* and succeeds in its error branch
FileProfiles ==
    { FileProfile(".txt", 2 * MIN_COMPRESSIBLE_SIZE, 2 * MIN_COMPRESSIBLE_SIZE, TRUE, "not1"),
      FileProfile(".jpg", 2 * MIN_COMPRESSIBLE_SIZE, 2 * MIN_COMPRESSIBLE_SIZE, TRUE, "not1"),
      FileProfile(".txt", SIZE_THRESHOLDS[3][1], SIZE_THRESHOLDS[3][1], TRUE, "not0"),
      FileProfile(".txt", 2 * MIN_COMPRESSIBLE_SIZE, 2 * MIN_COMPRESSIBLE_SIZE, FALSE, "not1"),
      [FileProfile(".txt", 2 * MIN_COMPRESSIBLE_SIZE, 2 * MIN_COMPRESSIBLE_SIZE, TRUE, "not1")
          EXCEPT !.plan_stat_ok = FALSE] }

\* Mutant: an OSError is appended to the error list but the file is not recorded
\* as skipped
plan_file_error_unrecorded(acc, file_path, profile, thorough_check) ==
    LET decision == should_compress_file(profile.suffix, profile.size, profile.alloc,
                                         profile.stat_ok, profile.getter_ok,
                                         profile.compact, thorough_check)
        file_size == profile.size
        counted == [acc.stats EXCEPT !.total_original_size = @ + file_size]
    IN  IF ~profile.plan_stat_ok
        THEN [candidates |-> acc.candidates,
              stats |-> record_error(acc.stats, <<"processing", file_path>>)]
        ELSE IF decision.should_compress
        THEN [candidates |-> Append(acc.candidates,
                                 <<file_path, file_size,
                                   COMPRESSION_ALGORITHMS[get_size_category(file_size)]>>),
              stats |-> counted]
        ELSE [candidates |-> acc.candidates,
              stats |-> record_file_skip(
                            counted, file_path, decision.reason,
                            IF decision.size_hint /= 0 THEN decision.size_hint ELSE file_size,
                            file_size, decision.reason = ReasonAlreadyCompressed)]

\* plan_compression: the body of `for file_path in files` for one file; acc holds
\* the candidates and the stats
plan_file(acc, file_path, profile, thorough_check) ==
    LET decision == should_compress_file(profile.suffix, profile.size, profile.alloc,
                                         profile.stat_ok, profile.getter_ok,
                                         profile.compact, thorough_check)
        file_size == profile.size
        file_size_fallback == IF profile.fallback_stat_ok THEN profile.size ELSE 0
        counted == [acc.stats EXCEPT !.total_original_size = @ + file_size]
    IN  IF ~profile.plan_stat_ok
        THEN [candidates |-> acc.candidates,
              stats |-> record_file_skip(
                            record_error(acc.stats, <<"processing", file_path>>),
                            file_path, ReasonProcessing,
                            file_size_fallback, file_size_fallback, FALSE)]
        ELSE IF decision.should_compress
        THEN [candidates |-> Append(acc.candidates,
                                 <<file_path, file_size,
                                   COMPRESSION_ALGORITHMS[get_size_category(file_size)]>>),
              stats |-> counted]
        ELSE [candidates |-> acc.candidates,
              stats |-> record_file_skip(
                            counted, file_path, decision.reason,
                            IF decision.size_hint /= 0 THEN decision.size_hint ELSE file_size,
                            file_size, decision.reason = ReasonAlreadyCompressed)]

\* plan_compression: the loop over files[i..]
RECURSIVE plan_files(_, _, _, _, _)
plan_files(files, profiles, thorough_check, i, acc) ==
    IF i > Len(files) THEN acc
    ELSE plan_files(files, profiles, thorough_check, i + 1,
                    plan_file(acc, files[i], profiles[i], thorough_check))

\* Mutant: the walk does not stop at base_dir
RECURSIVE ancestors_up_to_root(_, _)
ancestors_up_to_root(path, base_dir) ==
    IF Parent(path) = path THEN <<path>>
    ELSE <<path>> \o ancestors_up_to_root(Parent(path), base_dir)

\* _ancestors_including_base
RECURSIVE ancestors_including_base(_, _)
ancestors_including_base(path, base_dir) ==
    IF path = base_dir \/ Parent(path) = path THEN <<path>>
    ELSE <<path>> \o ancestors_including_base(Parent(path), base_dir)

\* _has_skipped_ancestor; skipped is the set of keys of skipped_directories
has_skipped_ancestor(directory, base_dir, skipped) ==
    LET ancestors == ancestors_including_base(directory, base_dir)
    IN  \E i \in 1..Len(ancestors) : ancestors[i] \in skipped

\* Mutant: only the directory itself is looked up, not its ancestors
locate_skip_record_parent_only(directory, base_dir, skipped) ==
    IF directory \in skipped THEN Some(directory) ELSE None

\* _locate_skip_record: None, or the first ancestor that is a key of
\* skipped_directories
locate_skip_record(directory, base_dir, skipped) ==
    LET ancestors == ancestors_including_base(directory, base_dir)
        hits == { i \in 1..Len(ancestors) : ancestors[i] \in skipped }
    IN  IF hits = {} THEN None
        ELSE Some(ancestors[CHOOSE i \in hits : \A j \in hits : i <= j])

\* Mutant: the deepest directories are evaluated first
SortsBefore_deepest_first(a, b) ==
    \/ Len(a) > Len(b)
    \/ /\ Len(a) = Len(b)
       /\ \E i \in 1..Len(a) : a[i] < b[i] /\ \A j \in 1..(i - 1) : a[j] = b[j]

\* The sort key (len(item.parts), str(item).casefold()) orders a before b
SortsBefore(a, b) ==
    \/ Len(a) < Len(b)
    \/ /\ Len(a) = Len(b)
       /\ \E i \in 1..Len(a) : a[i] < b[i] /\ \A j \in 1..(i - 1) : a[j] = b[j]

\* sorted(directories, key=...)
SortedDirectories(directories) ==
    [i \in 1..Cardinality(directories) |->
        CHOOSE d \in directories :
            Cardinality({ o \in directories : SortsBefore(o, d) }) = i - 1]

\* _filter_high_entropy_directories: the loop over directories[i..]; acc holds the
\* keys of skipped_directories, the stats, and the directories that
\* evaluate_entropy_directory has called sample_directory_entropy on
RECURSIVE evaluate_directories(_, _, _, _, _)
evaluate_directories(directories, base_dir, min_savings_percent, i, acc) ==
    IF i > Len(directories) THEN acc
    ELSE IF has_skipped_ancestor(directories[i], base_dir, acc.skipped)
    THEN evaluate_directories(directories, base_dir, min_savings_percent, i + 1, acc)
    ELSE LET record == evaluate_entropy_directory(directories[i], base_dir,
                                                  min_savings_percent)
             sampled == IF directories[i] = base_dir THEN acc.sampled
                        ELSE acc.sampled \cup {directories[i]}
         IN  evaluate_directories(directories, base_dir, min_savings_percent, i + 1,
                 IF record /= None
                 THEN [skipped |-> acc.skipped \cup {directories[i]},
                       stats |-> append_directory_skip_record(acc.stats, Val(record)),
                       sampled |-> sampled]
                 ELSE [acc EXCEPT !.sampled = sampled])

\* Mutant: a candidate under a denied directory is recorded as skipped and kept
RECURSIVE filter_candidates_keeps_denied(_, _, _, _, _)
filter_candidates_keeps_denied(candidates, base_dir, skipped, i, acc) ==
    IF i > Len(candidates) THEN acc
    ELSE LET skip_record == locate_skip_record(Parent(candidates[i][1]), base_dir, skipped)
         IN  filter_candidates_keeps_denied(candidates, base_dir, skipped, i + 1,
                 IF skip_record /= None
                 THEN [candidates |-> Append(acc.candidates, candidates[i]),
                       stats |-> record_file_skip(acc.stats, candidates[i][1],
                                     ReasonHighEntropy, candidates[i][2],
                                     candidates[i][2], FALSE)]
                 ELSE [candidates |-> Append(acc.candidates, candidates[i]),
                       stats |-> acc.stats])

\* _filter_high_entropy_directories: the loop over candidates[i..]; acc holds
\* filtered and the stats
RECURSIVE filter_candidates(_, _, _, _, _)
filter_candidates(candidates, base_dir, skipped, i, acc) ==
    IF i > Len(candidates) THEN acc
    ELSE LET skip_record == locate_skip_record(Parent(candidates[i][1]), base_dir, skipped)
         IN  filter_candidates(candidates, base_dir, skipped, i + 1,
                 IF skip_record /= None
                 THEN [candidates |-> acc.candidates,
                       stats |-> record_file_skip(acc.stats, candidates[i][1],
                                     ReasonHighEntropy, candidates[i][2],
                                     candidates[i][2], FALSE)]
                 ELSE [candidates |-> Append(acc.candidates, candidates[i]),
                       stats |-> acc.stats])

\* Mutant: the pass runs whatever the threshold
filter_high_entropy_directories_any_threshold(candidates, base_dir, stats, min_savings_percent) ==
    IF candidates = <<>>
    THEN [candidates |-> candidates, stats |-> stats, sampled |-> {}]
    ELSE LET directories ==
                 { Parent(candidates[i][1]) : i \in 1..Len(candidates) } \cup {base_dir}
             evaluated ==
                 evaluate_directories(SortedDirectories(directories), base_dir,
                     min_savings_percent, 1,
                     [skipped |-> {}, stats |-> stats, sampled |-> {}])
             filtered ==
                 IF evaluated.skipped = {}
                 THEN [candidates |-> candidates, stats |-> evaluated.stats]
                 ELSE filter_candidates(candidates, base_dir, evaluated.skipped, 1,
                          [candidates |-> <<>>, stats |-> evaluated.stats])
         IN  [candidates |-> filtered.candidates, stats |-> filtered.stats,
              sampled |-> evaluated.sampled]

\* _filter_high_entropy_directories
filter_high_entropy_directories(candidates, base_dir, stats, min_savings_percent) ==
    IF candidates = <<>> \/ min_savings_percent <= 0
    THEN [candidates |-> candidates, stats |-> stats, sampled |-> {}]
    ELSE LET directories ==
                 { Parent(candidates[i][1]) : i \in 1..Len(candidates) } \cup {base_dir}
             evaluated ==
                 evaluate_directories(SortedDirectories(directories), base_dir,
                     min_savings_percent, 1,
                     [skipped |-> {}, stats |-> stats, sampled |-> {}])
             filtered ==
                 IF evaluated.skipped = {}
                 THEN [candidates |-> candidates, stats |-> evaluated.stats]
                 ELSE filter_candidates(candidates, base_dir, evaluated.skipped, 1,
                          [candidates |-> <<>>, stats |-> evaluated.stats])
         IN  [candidates |-> filtered.candidates, stats |-> filtered.stats,
              sampled |-> evaluated.sampled]

\* plan_compression
plan_compression(files, profiles, stats, thorough_check, base_dir, min_savings_percent) ==
    LET scanned == plan_files(files, profiles, thorough_check, 1,
                              [candidates |-> <<>>, stats |-> stats])
    IN  filter_high_entropy_directories(scanned.candidates, base_dir, scanned.stats,
                                        min_savings_percent)

\* The <<collect_entropy, min_savings_percent>> pairs a run is started with:
\* compress_directory walks without entropy sampling, with no threshold or with
\* one of 50 percent; the third pair has the walker sample as well
RunModes == { <<FALSE, 0>>, <<FALSE, 50>>, <<TRUE, 50>> }

\* The files plan_compression can meet: without thorough_check the status query is
\* never made, and the file only the query reports as compressed is an eligible
\* file of the last size category
ProfilesFor(thorough_check) == FileProfiles

InitPlan ==
    \E kind \in [TreeDirs -> DirKinds], mode \in RunModes, thorough_check \in BOOLEAN :
        /\ \A d \in TreeDirs, e \in TreeDirs :
             (kind[d] = "system" /\ Under(e, d)) => kind[e] = "system"
        /\ p_kind = kind
        /\ p_min_savings = mode[2]
        /\ p_collect = mode[1]
        /\ p_thorough = thorough_check
        /\ p_pc = "start"
        /\ p_stack = <<>>
        /\ p_yielded = <<>>
        /\ p_profiles = <<>>
        /\ p_denied = <<>>
        /\ p_stats = NewPlanStats
        /\ p_plan = <<>>
        /\ p_walked = NewPlanStats
        /\ p_sampled = {}
        /\ p_evaluated = <<>>
        /\ p_again = <<>>

PlanIdle ==
    /\ p_kind = <<>>
    /\ p_min_savings = 0
    /\ p_collect = FALSE
    /\ p_thorough = FALSE
    /\ p_pc = "idle"
    /\ p_stack = <<>>
    /\ p_yielded = <<>>
    /\ p_profiles = <<>>
    /\ p_denied = <<>>
    /\ p_stats = NewPlanStats
    /\ p_plan = <<>>
    /\ p_walked = NewPlanStats
    /\ p_sampled = {}
    /\ p_evaluated = <<>>
    /\ p_again = <<>>

planInputs == <<p_kind, p_min_savings, p_collect, p_thorough>>

\* iter_files up to os.walk: the root is put to the directory policy, and nothing
\* is walked when it is denied
IterFilesBegin ==
    /\ p_pc = "start"
    /\ LET skip_root == maybe_skip_directory(BaseDir, BaseDir, p_stats, p_collect,
                                             p_min_savings)
       IN  /\ p_stats' = skip_root.stats
           /\ p_denied' = p_denied \o NewDenials(p_stats, skip_root.stats)
           /\ IF skip_root.skip
              THEN p_pc' = "walked" /\ p_stack' = <<>>
              ELSE p_pc' = "walking" /\ p_stack' = <<BaseDir>>
    /\ p_evaluated' = Append(p_evaluated, BaseDir)
    /\ UNCHANGED <<p_yielded, p_profiles, p_plan, p_walked, p_sampled, p_again, planInputs>>
    /\ UNCHANGED notPlanVars

\* iter_files: one iteration of `for current_root, dirnames, files in os.walk(root)`:
\* the sub-directories are put to the policy, the denied ones are pruned, the files
\* of the directory are yielded; os.walk descends into the kept sub-directories next
WalkDirectory ==
    /\ p_pc = "walking"
    /\ LET current_base == Head(p_stack)
           pruned == filter_dirnames(Listing(TreeDirs, current_base), 1,
                                     [new_dirnames |-> <<>>, stats |-> p_stats])
           rest == pruned.new_dirnames \o Tail(p_stack)
       IN  /\ p_stats' = pruned.stats
           /\ p_denied' = p_denied \o NewDenials(p_stats, pruned.stats)
           /\ p_yielded' = p_yielded \o Listing(TreeFiles, current_base)
           /\ p_stack' = rest
           /\ p_pc' = IF rest = <<>> THEN "walked" ELSE "walking"
    /\ p_evaluated' = p_evaluated \o Listing(TreeDirs, Head(p_stack))
    /\ UNCHANGED <<p_profiles, p_plan, p_walked, p_sampled, p_again, planInputs>>
    /\ UNCHANGED notPlanVars

\* plan_compression on the files the walker yielded
PlanCompression ==
    /\ p_pc = "walked"
    /\ \E profiles \in [1..Len(p_yielded) -> ProfilesFor(p_thorough)] :
         LET planned == plan_compression(p_yielded, profiles, p_stats, p_thorough,
                                         BaseDir, p_min_savings)
         IN  /\ p_profiles' = profiles
             /\ p_plan' = planned.candidates
             /\ p_stats' = planned.stats
             /\ p_sampled' = planned.sampled
             /\ p_denied' = p_denied \o NewDenials(p_stats, planned.stats)
    /\ p_pc' = "planned"
    /\ p_walked' = p_stats
    /\ UNCHANGED <<p_stack, p_yielded, p_evaluated, p_again, planInputs>>
    /\ UNCHANGED notPlanVars

\* A second run on the same tree: the walker yields the same files and leaves
\* the same stats, and plan_compression is called on them again
PlanAgain ==
    /\ p_pc = "planned"
    /\ p_again' = plan_compression(p_yielded, p_profiles, p_walked, p_thorough,
                                   BaseDir, p_min_savings).candidates
    /\ p_pc' = "planned_twice"
    /\ UNCHANGED <<p_stack, p_yielded, p_profiles, p_denied, p_stats, p_plan, p_walked,
                   p_sampled, p_evaluated, planInputs>>
    /\ UNCHANGED notPlanVars

NextPlan == IterFilesBegin \/ WalkDirectory \/ PlanCompression

NextPlanTwice == IterFilesBegin \/ WalkDirectory \/ PlanCompression \/ PlanAgain

\* The walk alone, on trees with directories that more than one policy denies;
\* what lies below a protected directory is protected
InitWalk ==
    \E kind \in [TreeDirs -> DirKinds \cup MixedKinds], mode \in RunModes :
        /\ p_kind = kind
        /\ \A d \in TreeDirs, e \in TreeDirs :
             (should_skip_directory(d) /\ Under(e, d)) => should_skip_directory(e)
        /\ p_min_savings = mode[2]
        /\ p_collect = mode[1]
        /\ p_thorough = FALSE
        /\ p_pc = "start"
        /\ p_stack = <<>>
        /\ p_yielded = <<>>
        /\ p_profiles = <<>>
        /\ p_denied = <<>>
        /\ p_stats = NewPlanStats
        /\ p_plan = <<>>
        /\ p_walked = NewPlanStats
        /\ p_sampled = {}
        /\ p_evaluated = <<>>
        /\ p_again = <<>>

NextWalk == IterFilesBegin \/ WalkDirectory

(***************************************************************************)
(* PART 6 - the legacy branding pass (compression_module.py).              *)
(***************************************************************************)

\* The longest file list of a branding run
MaxLegacyFiles == 3

\* What the pass can meet at a file: a file of exactly the minimum size that is
\* not marked compressed, a deny-listed file, a file one byte too small, a file
\* that takes less room than its size, a file only the status query reports as
\* compressed, and a file whose stat() raises
LegacyProfiles ==
    { FileProfile(".txt", MIN_COMPRESSIBLE_SIZE, MIN_COMPRESSIBLE_SIZE, TRUE, "not1"),
      FileProfile(".jpg", 2 * MIN_COMPRESSIBLE_SIZE, 2 * MIN_COMPRESSIBLE_SIZE, TRUE, "not1"),
      FileProfile(".txt", MIN_COMPRESSIBLE_SIZE - 1, MIN_COMPRESSIBLE_SIZE - 1, TRUE, "not1"),
      FileProfile(".txt", 2 * MIN_COMPRESSIBLE_SIZE, MIN_COMPRESSIBLE_SIZE, TRUE, "not1"),
      FileProfile(".txt", 2 * MIN_COMPRESSIBLE_SIZE, 2 * MIN_COMPRESSIBLE_SIZE, TRUE, "not0"),
      FileProfile(".txt", 2 * MIN_COMPRESSIBLE_SIZE, 2 * MIN_COMPRESSIBLE_SIZE, FALSE, "not1") }

\* LegacyCompressionStats()
NewLegacyStats == [total_files |-> 0, branded_files |-> 0, still_unmarked |-> 0, errors |-> <<>>]

\* compress_directory_legacy: worker_count
legacy_worker_count(physical, limit) ==
    apply_worker_cap(Max(IF Falsy(physical) THEN 1 ELSE Val(physical), 1), limit)

\* Mutant: a file of exactly the minimum size is passed over
branding_verdict_above_minimum(profile, thorough_check) ==
    IF Lower(profile.suffix) \in SKIP_EXTENSIONS THEN "continue"
    ELSE IF ~profile.stat_ok[1] THEN "error"
    ELSE IF profile.size <= MIN_COMPRESSIBLE_SIZE THEN "continue"
    ELSE IF is_file_compressed(profile.size, profile.alloc, profile.stat_ok[2],
                               profile.getter_ok, profile.compact,
                               thorough_check).compressed
    THEN "continue"
    ELSE "target"

\* _collect_branding_targets: what the body of `for name in files` does with one
\* file after counting it
branding_verdict(profile, thorough_check) ==
    IF Lower(profile.suffix) \in SKIP_EXTENSIONS THEN "continue"
    ELSE IF ~profile.stat_ok[1] THEN "error"
    ELSE IF profile.size < MIN_COMPRESSIBLE_SIZE THEN "continue"
    ELSE IF is_file_compressed(profile.size, profile.alloc, profile.stat_ok[2],
                               profile.getter_ok, profile.compact,
                               thorough_check).compressed
    THEN "continue"
    ELSE "target"

\* _collect_branding_targets: the loop over files[i..]; acc holds targets and stats
RECURSIVE collect_branding_targets(_, _, _, _)
collect_branding_targets(files, thorough_check, i, acc) ==
    IF i > Len(files) THEN acc
    ELSE LET verdict == branding_verdict(files[i], thorough_check)
             counted == [acc.stats EXCEPT !.total_files = @ + 1]
         IN  collect_branding_targets(files, thorough_check, i + 1,
                 [targets |-> IF verdict = "target" THEN Append(acc.targets, i)
                              ELSE acc.targets,
                  stats |-> IF verdict = "error"
                            THEN [counted EXCEPT !.errors = Append(@, <<"checking", i>>)]
                            ELSE counted])

\* compress_directory_legacy: the body of `for completed, future in ...` for the
\* future of file i that ended as `outcome`; v is what the verification meets
brand_result(stats, i, size, outcome, v) ==
    IF outcome = "raised"
    THEN [stats EXCEPT !.errors = Append(@, <<"exception", i>>)]
    ELSE IF outcome = "failed" THEN stats
    ELSE IF is_file_compressed(size, AllocAfter(size, v), v.stat_ok, v.getter_ok,
                               "rc_fail", FALSE).compressed
    THEN [stats EXCEPT !.branded_files = @ + 1]
    ELSE [stats EXCEPT !.still_unmarked = @ + 1]

NoMarks == [calls |-> 0, branded |-> 0, unmarked |-> 0]

InitLegacy ==
    \E n \in 1..MaxLegacyFiles, physical \in {None, Some(2)}, limit \in {None, Some(1)} :
        /\ l_files \in [1..n -> LegacyProfiles]
        /\ l_thorough \in BOOLEAN
        /\ l_workers = legacy_worker_count(physical, limit)
        /\ l_pc = "start"
        /\ l_targets = <<>>
        /\ l_fut = <<>>
        /\ l_taken = {}
        /\ l_stats = NewLegacyStats
        /\ l_marks = [i \in 1..n |-> NoMarks]

LegacyIdle ==
    /\ l_files = <<>>
    /\ l_thorough = FALSE
    /\ l_workers = 0
    /\ l_pc = "idle"
    /\ l_targets = <<>>
    /\ l_fut = <<>>
    /\ l_taken = {}
    /\ l_stats = NewLegacyStats
    /\ l_marks = <<>>

legacyInputs == <<l_files, l_thorough, l_workers>>

\* compress_directory_legacy up to the submission of the futures: the targets are
\* collected, and the run returns at once when there are none
CollectBrandingTargets ==
    /\ l_pc = "start"
    /\ LET collected == collect_branding_targets(l_files, l_thorough, 1,
                             [targets |-> <<>>, stats |-> l_stats])
       IN  /\ l_targets' = collected.targets
           /\ l_stats' = collected.stats
           /\ l_fut' = [t \in 1..Len(collected.targets) |-> "pending"]
           /\ l_pc' = IF collected.targets = <<>> THEN "returned" ELSE "branding"
    /\ UNCHANGED <<l_taken, l_marks, legacyInputs>>
    /\ UNCHANGED notLegacyVars

\* A free worker of the pool takes the oldest pending future and calls
\* legacy_compress_file on its file
BrandWorkerStart ==
    /\ l_pc = "branding"
    /\ Cardinality({ t \in DOMAIN l_fut : l_fut[t] = "running" }) < l_workers
    /\ \E t \in DOMAIN l_fut :
          /\ l_fut[t] = "pending"
          /\ \A u \in 1..(t - 1) : l_fut[u] /= "pending"
          /\ l_fut' = [l_fut EXCEPT ![t] = "running"]
          /\ l_marks' = [l_marks EXCEPT ![l_targets[t]].calls = @ + 1]
    /\ UNCHANGED <<l_pc, l_targets, l_taken, l_stats, legacyInputs>>
    /\ UNCHANGED notLegacyVars

\* legacy_compress_file ends: compact returned 0, did not, or an exception that
\* legacy_compress_file does not catch left the call
BrandWorkerFinish ==
    /\ l_pc = "branding"
    /\ \E t \in DOMAIN l_fut, outcome \in {"ok", "failed", "raised"} :
          /\ l_fut[t] = "running"
          /\ l_fut' = [l_fut EXCEPT ![t] = outcome]
    /\ UNCHANGED <<l_pc, l_targets, l_taken, l_stats, l_marks, legacyInputs>>
    /\ UNCHANGED notLegacyVars

\* as_completed hands a finished future to the main thread, which verifies the
\* file and counts it
BrandTakeFuture ==
    /\ l_pc = "branding"
    /\ \E t \in DOMAIN l_fut \ l_taken, v \in { w \in Verifications : ~w.raises } :
          /\ l_fut[t] \in {"ok", "failed", "raised"}
          /\ l_fut[t] /= "ok" => v.shrunk
          /\ LET i == l_targets[t]
                 after == brand_result(l_stats, i, l_files[i].size, l_fut[t], v)
             IN  /\ l_stats' = after
                 /\ l_marks' = [l_marks EXCEPT
                        ![i].branded = @ + (after.branded_files - l_stats.branded_files),
                        ![i].unmarked = @ + (after.still_unmarked - l_stats.still_unmarked)]
          /\ l_taken' = l_taken \cup {t}
    /\ UNCHANGED <<l_pc, l_targets, l_fut, legacyInputs>>
    /\ UNCHANGED notLegacyVars

\* Every future has been handled: the pool is shut down and the stats returned
BrandReturn ==
    /\ l_pc = "branding"
    /\ l_taken = DOMAIN l_fut
    /\ l_pc' = "returned"
    /\ UNCHANGED <<l_targets, l_fut, l_taken, l_stats, l_marks, legacyInputs>>
    /\ UNCHANGED notLegacyVars

NextLegacy ==
    \/ CollectBrandingTargets
    \/ BrandWorkerStart
    \/ BrandWorkerFinish
    \/ BrandTakeFuture
    \/ BrandReturn

(***************************************************************************)
(* PART 7 - the ancestor lookup of the entropy re-filter                   *)
(* (compression_planner.py).                                               *)
(***************************************************************************)

\* The deepest path handed to the lookup
MaxDepth == 3

\* The resolved paths: the filesystem root <<>> and the directories of up to
\* MaxDepth parts below it
LookupPaths == UNION { [1..n -> {1, 2}] : n \in 0..MaxDepth }

\* The key sets of skipped_directories: up to two directories
SkippedSets == { k \in SUBSET LookupPaths : Cardinality(k) <= 2 }

InitAncestors ==
    /\ a_path \in LookupPaths
    /\ a_base \in LookupPaths
    /\ a_skipped \in SkippedSets
    /\ a_pc = "ready"
    /\ a_ancestors = <<>>
    /\ a_found = None
    /\ a_has = FALSE

AncestorsIdle ==
    /\ a_path = <<>>
    /\ a_base = <<>>
    /\ a_skipped = {}
    /\ a_pc = "idle"
    /\ a_ancestors = <<>>
    /\ a_found = None
    /\ a_has = FALSE

\* _has_skipped_ancestor and _locate_skip_record on the same arguments
LocateSkipRecord ==
    /\ a_pc = "ready"
    /\ a_ancestors' = ancestors_including_base(a_path, a_base)
    /\ a_found' = locate_skip_record(a_path, a_base, a_skipped)
    /\ a_has' = has_skipped_ancestor(a_path, a_base, a_skipped)
    /\ a_pc' = "done"
    /\ UNCHANGED <<a_path, a_base, a_skipped>>
    /\ UNCHANGED notAncVars

(***************************************************************************)
(* PART 8 - the directory entropy sampler (compression/entropy.py).        *)
(***************************************************************************)

\* The chunk_size argument: bytes read from the head of a file
ChunkSize == 2

\* A max_files that stops the sampling of the tree early
FileLimit == 2

\* A max_bytes that stops the sampling of the tree early
ByteLimit == 2

\* The sampled tree: the directories of the walker's tree, with a file ahead of
\* the sub-directories of the root and one file at the end of every directory
SampleRoot == BaseDir

SampleFiles == TreeFiles \cup {<<1, 0>>}

\* What a file holds: unreadable, empty, one byte, three different bytes
Unreadable == [readable |-> FALSE, content |-> <<>>]

Holding(content) == [readable |-> TRUE, content |-> content]

FileKinds == {Unreadable, Holding(<<>>), Holding(<<7>>), Holding(<<7, 8, 9>>)}

\* The <<max_files, max_bytes>> pairs: the file limit binds, the byte limit
\* binds, neither binds
SampleLimits ==
    { <<FileLimit, ChunkSize * Cardinality(SampleFiles)>>,
      <<Cardinality(SampleFiles), ByteLimit>>,
      <<Cardinality(SampleFiles), ChunkSize * Cardinality(SampleFiles)>> }

\* stream.read(chunk_size) of a readable file
read_chunk(content, chunk_size) == SubSeq(content, 1, Min(Len(content), chunk_size))

\* log2(n) in hundredths, n = 1..4
Log2Hundredths == <<0, 100, 158, 200>>

\* shannon_entropy in hundredths of a bit, for a sample whose bytes are all equal
\* or all different
shannon_entropy(sample) ==
    IF sample = <<>> THEN 0
    ELSE Log2Hundredths[Cardinality({ sample[i] : i \in 1..Len(sample) })]

\* list(current.iterdir()), by name
iterdir(current) == Listing(TreeDirs \cup SampleFiles, current)

InitSampler ==
    /\ s_kind \in [SampleFiles -> FileKinds]
    /\ s_locked \in { k \in SUBSET TreeDirs : Cardinality(k) <= 1 }
    /\ \E limits \in SampleLimits : s_max_files = limits[1] /\ s_max_bytes = limits[2]
    /\ s_skip_root \in BOOLEAN
    /\ s_pc = "while"
    /\ s_pending = <<SampleRoot>>
    /\ s_current = <<>>
    /\ s_entries = <<>>
    /\ s_files = 0
    /\ s_bytes = 0
    /\ s_weighted = 0
    /\ s_visited = <<>>
    /\ s_opened = <<>>
    /\ s_result = <<>>

SamplerIdle ==
    /\ s_kind = <<>>
    /\ s_locked = {}
    /\ s_max_files = 0
    /\ s_max_bytes = 0
    /\ s_skip_root = FALSE
    /\ s_pc = "idle"
    /\ s_pending = <<>>
    /\ s_current = <<>>
    /\ s_entries = <<>>
    /\ s_files = 0
    /\ s_bytes = 0
    /\ s_weighted = 0
    /\ s_visited = <<>>
    /\ s_opened = <<>>
    /\ s_result = <<>>

\* Mutant: only the file count ends the for loop
limit_reached_files_only(sampled_files, sampled_bytes) ==
    sampled_files >= s_max_files

\* The limits that end both loops
limit_reached(sampled_files, sampled_bytes) ==
    sampled_files >= s_max_files \/ sampled_bytes >= s_max_bytes

\* Mutant: a directory that cannot be listed ends the sampling
SampleWhileAbortsOnError ==
    /\ s_pc = "while"
    /\ IF s_pending /= <<>> /\ s_files < s_max_files /\ s_bytes < s_max_bytes
       THEN /\ s_current' = Head(s_pending)
            /\ s_pending' = Tail(s_pending)
            /\ s_visited' = Append(s_visited, Head(s_pending))
            /\ IF Head(s_pending) \in s_locked
               THEN s_pc' = "return" /\ s_entries' = <<>>
               ELSE s_pc' = "for" /\ s_entries' = iterdir(Head(s_pending))
       ELSE /\ s_pc' = "return"
            /\ UNCHANGED <<s_current, s_pending, s_visited, s_entries>>
    /\ UNCHANGED <<samplerInputs, s_files, s_bytes, s_weighted, s_opened, s_result>>
    /\ UNCHANGED notSamplerVars

\* One test of the while condition: the loop ends, or the next directory is
\* popped and listed; a directory that cannot be listed is passed over
SampleWhile ==
    /\ s_pc = "while"
    /\ IF s_pending /= <<>> /\ s_files < s_max_files /\ s_bytes < s_max_bytes
       THEN /\ s_current' = Head(s_pending)
            /\ s_pending' = Tail(s_pending)
            /\ s_visited' = Append(s_visited, Head(s_pending))
            /\ IF Head(s_pending) \in s_locked
               THEN s_pc' = "while" /\ s_entries' = <<>>
               ELSE s_pc' = "for" /\ s_entries' = iterdir(Head(s_pending))
       ELSE /\ s_pc' = "return"
            /\ UNCHANGED <<s_current, s_pending, s_visited, s_entries>>
    /\ UNCHANGED <<samplerInputs, s_files, s_bytes, s_weighted, s_opened, s_result>>
    /\ UNCHANGED notSamplerVars

\* One iteration of `for entry in entries`
SampleEntry ==
    /\ s_pc = "for"
    /\ s_entries /= <<>>
    /\ LET entry == Head(s_entries)
           data == read_chunk(s_kind[entry].content, ChunkSize)
       IN  IF entry \in TreeDirs
           THEN /\ s_pending' = Append(s_pending, entry)
                /\ s_entries' = Tail(s_entries)
                /\ UNCHANGED <<s_pc, s_files, s_bytes, s_weighted, s_opened>>
           ELSE IF s_skip_root /\ s_current = SampleRoot
           THEN /\ s_entries' = Tail(s_entries)
                /\ UNCHANGED <<s_pc, s_pending, s_files, s_bytes, s_weighted, s_opened>>
           ELSE IF ~s_kind[entry].readable \/ data = <<>>
           THEN /\ s_opened' = Append(s_opened, entry)
                /\ s_entries' = Tail(s_entries)
                /\ UNCHANGED <<s_pc, s_pending, s_files, s_bytes, s_weighted>>
           ELSE /\ s_opened' = Append(s_opened, entry)
                /\ s_files' = s_files + 1
                /\ s_bytes' = s_bytes + Len(data)
                /\ s_weighted' = s_weighted + shannon_entropy(data) * Len(data)
                /\ IF limit_reached(s_files + 1, s_bytes + Len(data))
                   THEN s_pc' = "return" /\ s_entries' = <<>>
                   ELSE s_pc' = "for" /\ s_entries' = Tail(s_entries)
                /\ UNCHANGED s_pending
    /\ UNCHANGED <<samplerInputs, s_current, s_visited, s_result>>
    /\ UNCHANGED notSamplerVars

\* The for loop has taken every entry: back to the while condition
SampleEntriesEnd ==
    /\ s_pc = "for"
    /\ s_entries = <<>>
    /\ s_pc' = IF limit_reached(s_files, s_bytes) THEN "return" ELSE "while"
    /\ UNCHANGED <<samplerInputs, s_pending, s_current, s_entries, s_files, s_bytes,
                   s_weighted, s_visited, s_opened, s_result>>
    /\ UNCHANGED notSamplerVars

\* The return statements; average_entropy in hundredths of a bit, rounded down
sample_result(weighted_entropy, sampled_files, sampled_bytes) ==
    IF sampled_bytes = 0
    THEN <<None, sampled_files, sampled_bytes>>
    ELSE <<Some(weighted_entropy \div sampled_bytes), sampled_files, sampled_bytes>>

SampleReturn ==
    /\ s_pc = "return"
    /\ s_result' = sample_result(s_weighted, s_files, s_bytes)
    /\ s_pc' = "done"
    /\ UNCHANGED <<samplerInputs, s_pending, s_current, s_entries, s_files, s_bytes,
                   s_weighted, s_visited, s_opened>>
    /\ UNCHANGED notSamplerVars

NextSampler == SampleWhile \/ SampleEntry \/ SampleEntriesEnd \/ SampleReturn

(***************************************************************************)
(* PART 9 - the protected-path policy (file_utils.py, config.py).          *)
(* Strings are sequences of one-character strings.                         *)
(***************************************************************************)

\* os.sep on Windows
Sep == "\\"

\* str.lower on the letters A-Z
LowerOf ==
    "A" :> "a" @@ "B" :> "b" @@ "C" :> "c" @@ "D" :> "d" @@ "E" :> "e" @@ "F" :> "f" @@
    "G" :> "g" @@ "H" :> "h" @@ "I" :> "i" @@ "J" :> "j" @@ "K" :> "k" @@ "L" :> "l" @@
    "M" :> "m" @@ "N" :> "n" @@ "O" :> "o" @@ "P" :> "p" @@ "Q" :> "q" @@ "R" :> "r" @@
    "S" :> "s" @@ "T" :> "t" @@ "U" :> "u" @@ "V" :> "v" @@ "W" :> "w" @@ "X" :> "x" @@
    "Y" :> "y" @@ "Z" :> "z"

LowerChar(c) == IF c \in DOMAIN LowerOf THEN LowerOf[c] ELSE c

\* os.path.normcase on Windows: lower case, and / becomes \
normcase(path) ==
    [i \in 1..Len(path) |-> IF path[i] = "/" THEN Sep ELSE LowerChar(path[i])]

\* os.path.normpath on Windows, for a drive-rooted path without empty, "." or
\* ".." components: / becomes \ and a trailing separator goes, save the root's
normpath(path) ==
    LET slashed == [i \in 1..Len(path) |-> IF path[i] = "/" THEN Sep ELSE path[i]]
    IN  IF Len(slashed) > 3 /\ slashed[Len(slashed)] = Sep
        THEN SubSeq(slashed, 1, Len(slashed) - 1)
        ELSE slashed

\* _normalize_for_compare
normalize_for_compare(path) ==
    LET normalized == normcase(normpath(path))
    IN  IF Len(normalized) = 2 /\ normalized[2] = ":"
        THEN Append(normalized, Sep)
        ELSE normalized

\* config.py DEFAULT_EXCLUDE_DIRECTORIES with SystemDrive = C: and SystemRoot
\* unset or C:\Windows
DEFAULT_EXCLUDE_DIRECTORIES ==
    << <<"C", ":", "\\", "W", "i", "n", "d", "o", "w", "s">>,
       <<"C", ":", "\\", "$", "R", "e", "c", "y", "c", "l", "e", ".", "B", "i", "n">>,
       <<"C", ":", "\\", "S", "y", "s", "t", "e", "m", " ", "V", "o", "l", "u", "m", "e", " ", "I", "n", "f", "o", "r", "m", "a", "t", "i", "o", "n">>,
       <<"C", ":", "\\", "R", "e", "c", "o", "v", "e", "r", "y">>,
       <<"C", ":", "\\", "P", "e", "r", "f", "L", "o", "g", "s">>,
       <<"C", ":", "\\", "W", "i", "n", "d", "o", "w", "s", ".", "o", "l", "d">> >>

\* str.startswith
StartsWith(text, prefix) ==
    Len(prefix) <= Len(text) /\ SubSeq(text, 1, Len(prefix)) = prefix

\* Mutant: the prefix is the protected directory without the separator
match_exclusion_no_boundary(normalized) ==
    LET excluded(i) == normalize_for_compare(DEFAULT_EXCLUDE_DIRECTORIES[i])
        hits == { i \in 1..Len(DEFAULT_EXCLUDE_DIRECTORIES) :
                    \/ normalized = excluded(i)
                    \/ StartsWith(normalized, excluded(i)) }
    IN  IF hits = {} THEN [skip |-> FALSE, reason |-> <<>>]
        ELSE LET first == CHOOSE i \in hits : \A j \in hits : i <= j
             IN  [skip |-> TRUE,
                  reason |-> <<IF normalized = excluded(first) THEN "Protected" ELSE "Within",
                               normpath(DEFAULT_EXCLUDE_DIRECTORIES[first])>>]

\* _match_exclusion over _DEFAULT_EXCLUDE_MAP, whose keys are the normalized
\* entries in their order; the reason is the wording and the display path
match_exclusion(normalized) ==
    LET excluded(i) == normalize_for_compare(DEFAULT_EXCLUDE_DIRECTORIES[i])
        hits == { i \in 1..Len(DEFAULT_EXCLUDE_DIRECTORIES) :
                    \/ normalized = excluded(i)
                    \/ StartsWith(normalized, Append(excluded(i), Sep)) }
    IN  IF hits = {} THEN [skip |-> FALSE, reason |-> <<>>]
        ELSE LET first == CHOOSE i \in hits : \A j \in hits : i <= j
             IN  [skip |-> TRUE,
                  reason |-> <<IF normalized = excluded(first) THEN "Protected" ELSE "Within",
                               normpath(DEFAULT_EXCLUDE_DIRECTORIES[first])>>]

\* file_utils.py should_skip_directory on str(directory)
skip_directory_verdict(path) == match_exclusion(normalize_for_compare(path))

\* The drives and the directory names the paths are made of
DriveNames == { <<"C", ":">>, <<"c", ":">>, <<"D", ":">> }

SegmentNames ==
    { <<"W", "i", "n", "d", "o", "w", "s">>,
      <<"W", "I", "N", "D", "O", "W", "S">>,
      <<"W", "i", "n", "d", "o", "w", "s", "A", "p", "p", "s">>,
      <<"W", "i", "n", "d", "o", "w", "s", ".", "o", "l", "d">>,
      <<"p", "e", "r", "f", "l", "o", "g", "s">>,
      <<"U", "s", "e", "r", "s">>,
      <<"S", "y", "s", "t", "e", "m", "3", "2">> }

\* The most directory names below the drive root
MaxSegments == 2

\* drive + \ + the names joined by \
RECURSIVE JoinPath(_, _)
JoinPath(drive, names) ==
    IF names = <<>> THEN Append(drive, Sep)
    ELSE IF Len(names) = 1 THEN Append(drive, Sep) \o names[1]
    ELSE JoinPath(drive, SubSeq(names, 1, Len(names) - 1)) \o <<Sep>> \o names[Len(names)]

\* str(directory) of the directories, and the same written with / or with a
\* trailing separator
PathStrings ==
    LET plain == { JoinPath(d, n) :
                     d \in DriveNames,
                     n \in UNION { [1..k -> SegmentNames] : k \in 0..MaxSegments } }
    IN  plain
          \cup { [i \in 1..Len(t) |-> IF t[i] = Sep THEN "/" ELSE t[i]] : t \in plain }
          \cup { Append(t, Sep) : t \in { u \in plain : Len(u) > 3 } }

InitProtect ==
    /\ k_path \in PathStrings
    /\ k_pc = "ready"
    /\ k_result = <<>>

ProtectIdle ==
    /\ k_path = <<>>
    /\ k_pc = "idle"
    /\ k_result = <<>>

ShouldSkipDirectory ==
    /\ k_pc = "ready"
    /\ k_result' = skip_directory_verdict(k_path)
    /\ k_pc' = "done"
    /\ UNCHANGED k_path
    /\ UNCHANGED notProtectVars

(***************************************************************************)
(* PART 10 - one CompressionStats under the updates of the planner and of  *)
(* the executor (stats.py, compression_executor.py).                       *)
(***************************************************************************)

\* The most updates made on the stats
MaxCalls == 3

\* CompressionStats(): the fields the planner and the executor update
NewCompressionStats ==
    [compressed_files |-> 0, skipped_files |-> 0, already_compressed_files |-> 0,
     total_original_size |-> 0, total_compressed_size |-> 0, total_skipped_size |-> 0,
     errors |-> <<>>, directory_skips |-> <<>>, file_skips |-> <<>>,
     skip_extension_files |-> 0, skip_low_savings_files |-> 0, locked |-> 0]

\* The reasons record_file_skip is called with
SkipReasons == {ReasonExtension, ReasonTooSmall, ReasonAlreadyCompressed, ReasonHighEntropy}

\* The sizes handed to the updates: none known, half a file, a file
UpdateSizes == {0, MIN_COMPRESSIBLE_SIZE \div 2, MIN_COMPRESSIBLE_SIZE}

InitStats ==
    /\ t_stats = NewCompressionStats
    /\ t_calls = 0

StatsIdle ==
    /\ t_stats = <<>>
    /\ t_calls = 0

\* One stats.record_file_skip call
RecordFileSkip ==
    /\ t_calls < MaxCalls
    /\ \E reason \in SkipReasons, size_hint \in UpdateSizes, original_size \in UpdateSizes,
          already_compressed \in BOOLEAN :
          t_stats' = record_file_skip(t_stats, t_calls + 1, reason, size_hint,
                                      original_size, already_compressed)
    /\ t_calls' = t_calls + 1
    /\ UNCHANGED notStatsVars

\* One _record_success call of the executor
RecordSuccess ==
    /\ t_calls < MaxCalls
    /\ \E compressed_size \in UpdateSizes : t_stats' = record_success(t_stats, compressed_size)
    /\ t_calls' = t_calls + 1
    /\ UNCHANGED notStatsVars

\* One _record_failure call of the executor
RecordFailure ==
    /\ t_calls < MaxCalls
    /\ \E file_size \in UpdateSizes : t_stats' = record_failure(t_stats, file_size)
    /\ t_calls' = t_calls + 1
    /\ UNCHANGED notStatsVars

\* One _record_error call of the executor
RecordError ==
    /\ t_calls < MaxCalls
    /\ t_stats' = record_error(t_stats, <<"error", t_calls + 1>>)
    /\ t_calls' = t_calls + 1
    /\ UNCHANGED notStatsVars

NextStats == RecordFileSkip \/ RecordSuccess \/ RecordFailure \/ RecordError

(***************************************************************************)
(* PART 11 - the flags of the interactive launcher (launch.py).            *)
(***************************************************************************)

\* launch.py _MUTUALLY_EXCLUSIVE
MUTUALLY_EXCLUSIVE ==
    << <<"thorough", "brand_files">>,
       <<"no_lzx", "force_lzx">>,
       <<"dry_run", "brand_files">> >>

\* LaunchState.MAX_VERBOSITY
MAX_VERBOSITY == 4

\* The boolean fields of a LaunchState
BoolFlags == {"no_lzx", "force_lzx", "thorough", "brand_files", "dry_run", "single_worker"}

\* The keys toggle is called with
ToggleKeys == BoolFlags \cup {"verbose", "min_savings"}

\* LaunchState.set_verbose_level
set_verbose_level(state, requested) ==
    LET level == Max(0, Min(requested, MAX_VERBOSITY))
    IN  [state EXCEPT !.verbose = IF level = 0 \/ @ = level THEN 0 ELSE level]

\* One iteration of the loop of _silence_conflicts
silence_pair(state, key, pair) ==
    LET primary == pair[1]
        secondary == pair[2]
    IN  IF key = primary /\ state[secondary]
          THEN [state EXCEPT ![secondary] = FALSE]
          ELSE IF key = secondary /\ state[primary]
                 THEN [state EXCEPT ![primary] = FALSE]
                 ELSE state

\* Mutant: only the second flag of a pair is silenced
silence_conflicts_primary_only(state, key, i) ==
    LET Loop[j \in i..(Len(MUTUALLY_EXCLUSIVE) + 1)] ==
          IF j > Len(MUTUALLY_EXCLUSIVE)
            THEN state
            ELSE LET rest == Loop[j + 1]
                     pair == MUTUALLY_EXCLUSIVE[j]
                 IN  IF key = pair[1] /\ rest[pair[2]]
                       THEN [rest EXCEPT ![pair[2]] = FALSE]
                       ELSE rest
    IN  Loop[i]

\* LaunchState._silence_conflicts, from the i-th pair on
RECURSIVE silence_conflicts(_, _, _)
silence_conflicts(state, key, i) ==
    IF i > Len(MUTUALLY_EXCLUSIVE)
      THEN state
      ELSE silence_conflicts(silence_pair(state, key, MUTUALLY_EXCLUSIVE[i]), key, i + 1)

\* LaunchState.toggle
toggle(state, key) ==
    IF key = "min_savings"
      THEN state
      ELSE IF key = "verbose"
             THEN set_verbose_level(state, 1)
             ELSE LET enabled == ~state[key]
                      flipped == [state EXCEPT ![key] = enabled]
                  IN  IF enabled THEN silence_conflicts(flipped, key, 1) ELSE flipped

\* No pair of _MUTUALLY_EXCLUSIVE is enabled on both sides
NoConflict(state) ==
    \A i \in 1..Len(MUTUALLY_EXCLUSIVE) :
        ~(state[MUTUALLY_EXCLUSIVE[i][1]] /\ state[MUTUALLY_EXCLUSIVE[i][2]])

\* The launch states without a conflict, as the parsed arguments give them
LaunchStates ==
    { st \in [verbose : 0..MAX_VERBOSITY, no_lzx : BOOLEAN, force_lzx : BOOLEAN,
               thorough : BOOLEAN, brand_files : BOOLEAN, dry_run : BOOLEAN,
               single_worker : BOOLEAN, min_savings : {0, 100}] :
        NoConflict(st) }

InitLaunch ==
    /\ l_state \in LaunchStates
    /\ l_key = ""
    /\ l_before = l_state

LaunchIdle ==
    /\ l_state = <<>>
    /\ l_key = ""
    /\ l_before = <<>>

\* One state.toggle(key) of the interactive loop
Toggle ==
    /\ \E key \in ToggleKeys :
          /\ l_state' = toggle(l_state, key)
          /\ l_key' = key
          /\ l_before' = l_state
    /\ UNCHANGED notLaunchVars

MoreIdle == AncestorsIdle /\ SamplerIdle /\ ProtectIdle /\ StatsIdle /\ LaunchIdle

(***************************************************************************)
(* The specifications.                                                     *)
(***************************************************************************)

\* The per-file classifier applied to one file drawn from the bounded inputs
FileInit == InitFile /\ WorkersIdle /\ ChunkIdle /\ ExecIdle /\ PlanIdle /\ CategoryIdle /\ LegacyIdle /\ MoreIdle /\ path_len = <<>>

SpecFile == FileInit /\ [][NextFile]_vars

\* The worker cap and the worker counts on every CPU topology
WorkersInit == InitWorkers /\ FileIdle /\ ChunkIdle /\ ExecIdle /\ PlanIdle /\ CategoryIdle /\ LegacyIdle /\ MoreIdle /\ path_len = <<>>

SpecWorkers == WorkersInit /\ [][NextWorkers]_vars

\* The chunker applied to one list of entries drawn from the bounded inputs
ChunkInit == InitChunk /\ FileIdle /\ WorkersIdle /\ ExecIdle /\ PlanIdle /\ CategoryIdle /\ LegacyIdle /\ MoreIdle

SpecChunk == ChunkInit /\ [][NextChunk]_vars

\* One run of execute_compression_plan on a plan drawn from the bounded inputs
ExecInit == InitExec /\ FileIdle /\ WorkersIdle /\ ChunkIdle /\ PlanIdle /\ CategoryIdle /\ LegacyIdle /\ MoreIdle

SpecExec == ExecInit /\ [][NextExec]_vars

\* The same run when every thread that can take a step eventually takes one: the
\* pool's threads run their calls, every call of the primitive returns, and the
\* main thread handles what as_completed hands it
SpecExecLive == ExecInit /\ [][NextExec]_vars /\ WF_vars(NextExec)

\* One run of iter_files followed by plan_compression on the tree
PlanInit ==
    InitPlan /\ FileIdle /\ WorkersIdle /\ ChunkIdle /\ ExecIdle /\ CategoryIdle /\ LegacyIdle /\ MoreIdle
      /\ path_len = <<>>

SpecPlan == PlanInit /\ [][NextPlan]_vars

\* Two runs of the planner on the same tree
SpecPlanTwice == PlanInit /\ [][NextPlanTwice]_vars

\* One run of iter_files on a tree whose directories several policies may deny
WalkInit ==
    InitWalk /\ FileIdle /\ WorkersIdle /\ ChunkIdle /\ ExecIdle /\ CategoryIdle /\ LegacyIdle
      /\ MoreIdle /\ path_len = <<>>

SpecWalk == WalkInit /\ [][NextWalk]_vars

\* get_size_category applied to one size drawn from the bounded inputs
CategoryInit ==
    /\ g_size \in CategorySizes
    /\ g_category = ""
    /\ FileIdle /\ WorkersIdle /\ ChunkIdle /\ ExecIdle /\ PlanIdle /\ LegacyIdle /\ MoreIdle
    /\ path_len = <<>>

SpecCategory == CategoryInit /\ [][GetSizeCategory]_vars

\* One run of compress_directory_legacy on a file list drawn from the bounded inputs
LegacyInit ==
    InitLegacy /\ FileIdle /\ WorkersIdle /\ ChunkIdle /\ ExecIdle /\ PlanIdle
      /\ CategoryIdle /\ MoreIdle /\ path_len = <<>>

SpecLegacy == LegacyInit /\ [][NextLegacy]_vars

\* Every part up to the legacy pass is idle
CoreIdle ==
    /\ FileIdle /\ WorkersIdle /\ ChunkIdle /\ ExecIdle /\ PlanIdle /\ CategoryIdle
    /\ LegacyIdle /\ path_len = <<>>

\* One ancestor lookup on arguments drawn from the bounded inputs
AncestorsInit == InitAncestors /\ CoreIdle /\ SamplerIdle /\ ProtectIdle /\ StatsIdle /\ LaunchIdle

SpecAncestors == AncestorsInit /\ [][LocateSkipRecord]_vars

\* One call of sample_directory_entropy on a tree drawn from the bounded inputs
SamplerInit == InitSampler /\ CoreIdle /\ AncestorsIdle /\ ProtectIdle /\ StatsIdle /\ LaunchIdle

SpecSampler == SamplerInit /\ [][NextSampler]_vars

\* One call of should_skip_directory on a path drawn from the bounded inputs
ProtectInit == InitProtect /\ CoreIdle /\ AncestorsIdle /\ SamplerIdle /\ StatsIdle /\ LaunchIdle

SpecProtect == ProtectInit /\ [][ShouldSkipDirectory]_vars

\* A fresh CompressionStats under up to MaxCalls updates
StatsInit == InitStats /\ CoreIdle /\ AncestorsIdle /\ SamplerIdle /\ ProtectIdle /\ LaunchIdle

SpecStats == StatsInit /\ [][NextStats]_vars

\* A launch state without a conflict under any sequence of toggles
LaunchInit == InitLaunch /\ CoreIdle /\ AncestorsIdle /\ SamplerIdle /\ ProtectIdle /\ StatsIdle

SpecLaunch == LaunchInit /\ [][Toggle]_vars

(***************************************************************************)
(* The claims about the per-file classifier.                               *)
(***************************************************************************)

ExtensionDenied == Lower(f_suffix) \in SKIP_EXTENSIONS

\* What the OS reports about the file: compressed by the size heuristic, or
\* confirmed by the external status query
SizesSayCompressed == f_getter_ok /\ f_alloc < f_size

QueryConfirms == f_compact = "not0"

\* C7: a file whose lower-cased extension is in the deny-list is denied, whatever
\* its size, allocated size or compression state, and no stat() is made for it.
C7_ExtensionAlwaysDenied ==
    (f_pc = "classified" /\ ExtensionDenied)
        => /\ ~f_decision.should_compress
           /\ f_decision.reason = ReasonExtension
           /\ f_stat_calls = 0

\* A deny-listed extension written in upper case on a file that is large enough
\* and not compressed has been classified.
C7_Witness ==
    /\ f_pc = "classified"
    /\ f_suffix = ".JPG"
    /\ f_size >= MIN_COMPRESSIBLE_SIZE
    /\ f_alloc = f_size
    /\ f_stat_ok = <<TRUE, TRUE>>
    /\ ~f_decision.should_compress

\* C8 as stated: every file below the minimum size (whose size lookup succeeds)
\* is denied with size hint equal to its actual size.
C8_Original ==
    (f_pc = "classified" /\ f_stat_ok[1] /\ f_size < MIN_COMPRESSIBLE_SIZE)
        => /\ ~f_decision.should_compress
           /\ f_decision.size_hint = f_size

\* C8 amended: every file below the minimum size is denied; the size hint equals
\* the actual size when the extension is not deny-listed and the size lookup
\* succeeds, and is 0 when the extension is deny-listed (that check comes first).
C8_SmallDenied ==
    (f_pc = "classified" /\ f_size < MIN_COMPRESSIBLE_SIZE)
        => /\ ~f_decision.should_compress
           /\ (~ExtensionDenied /\ f_stat_ok[1])
                => /\ f_decision.reason = ReasonTooSmall
                   /\ f_decision.size_hint = f_size
           /\ ExtensionDenied => f_decision.size_hint = 0

\* A non-empty file just below the minimum size, with an allowed extension, has
\* been classified as too small.
C8_Witness ==
    /\ f_pc = "classified"
    /\ f_size = MIN_COMPRESSIBLE_SIZE - 1
    /\ f_suffix = ".txt"
    /\ f_stat_ok[1]
    /\ f_decision.reason = ReasonTooSmall
    /\ f_decision.size_hint = f_size

\* C9: for a file whose size lookup succeeds the checks apply in the order
\* extension, minimum size, already compressed; the earliest matching check gives
\* the reason, and a file matching none is allowed with size hint = file size.
C9_CheckOrder ==
    f_pc = "classified" =>
        LET small == f_size < MIN_COMPRESSIBLE_SIZE
            compressed == \/ f_stat_ok[2] /\ SizesSayCompressed
                          \/ /\ f_stat_ok[2] /\ f_getter_ok /\ f_alloc = f_size
                             /\ f_thorough /\ QueryConfirms
        IN  /\ ExtensionDenied =>
                  ~f_decision.should_compress /\ f_decision.reason = ReasonExtension
            /\ (~ExtensionDenied /\ f_stat_ok[1] /\ small) =>
                  ~f_decision.should_compress /\ f_decision.reason = ReasonTooSmall
            /\ (~ExtensionDenied /\ f_stat_ok[1] /\ ~small /\ compressed) =>
                  /\ ~f_decision.should_compress
                  /\ f_decision.reason = ReasonAlreadyCompressed
            /\ (~ExtensionDenied /\ f_stat_ok[1] /\ ~small /\ ~compressed) =>
                  /\ f_decision.should_compress
                  /\ f_decision.reason = ReasonEligible
                  /\ f_decision.size_hint = f_size

\* A file that matches all three checks at once (deny-listed extension, below the
\* minimum size, allocated size below logical size) has been classified.
C9_Witness ==
    /\ f_pc = "classified"
    /\ ExtensionDenied
    /\ 0 < f_size /\ f_size < MIN_COMPRESSIBLE_SIZE
    /\ f_stat_ok = <<TRUE, TRUE>> /\ SizesSayCompressed
    /\ f_decision.reason = ReasonExtension

\* C10: is_file_compressed answers "compressed" exactly when the allocated size
\* is below the logical size, or the two are equal, thorough_check is set and the
\* status query confirms; without thorough_check the status query is never made
\* (neither by is_file_compressed nor through should_compress_file).
C10_CompressedIff ==
    /\ f_pc = "queried" =>
          /\ f_compressed.compressed <=>
                /\ f_stat_ok[1]
                /\ \/ SizesSayCompressed
                   \/ /\ f_getter_ok /\ f_alloc = f_size
                      /\ f_thorough /\ QueryConfirms
          /\ ~f_thorough => f_compact_calls = 0
    /\ (f_pc = "classified" /\ ~f_thorough) => f_compact_calls = 0

\* Equal sizes under thorough_check, and the status query decided the answer.
C10_Witness ==
    /\ f_pc = "queried"
    /\ f_thorough
    /\ f_stat_ok[1] /\ f_getter_ok
    /\ f_alloc = f_size
    /\ QueryConfirms
    /\ f_compact_calls = 1
    /\ f_compressed.compressed

\* C11: when the lookup of the file's size (stat) or of its allocated size
\* (GetCompressedFileSizeW) fails, is_file_compressed answers "not compressed",
\* and should_compress_file never denies the file as already compressed.
C11_LookupFailureNotCompressed ==
    /\ (f_pc = "queried" /\ (~f_stat_ok[1] \/ ~f_getter_ok)) =>
          ~f_compressed.compressed
    /\ (f_pc = "classified" /\ (~f_stat_ok[1] \/ ~f_stat_ok[2] \/ ~f_getter_ok)) =>
          f_decision.reason /= ReasonAlreadyCompressed

\* The allocated-size lookup failed on a file whose reported allocated size is
\* below its logical size; the file was classified as eligible.
C11_Witness ==
    /\ f_pc = "classified"
    /\ ~ExtensionDenied
    /\ f_stat_ok = <<TRUE, TRUE>> /\ ~f_getter_ok
    /\ f_size >= MIN_COMPRESSIBLE_SIZE /\ f_alloc < f_size
    /\ f_decision.should_compress
    /\ f_decision.reason = ReasonEligible

(***************************************************************************)
(* The claims about the worker counts.                                     *)
(***************************************************************************)

Computed(r) == r.n /= 0

\* C5: under a cap c >= 1 every worker count lies in 1..c on every CPU topology
\* (known or unknown core counts); under cap 1 the XPRESS and the LZX count are 1.
C5_WorkerCapBounds ==
    \A r \in {w_xp, w_lzx, w_entropy} :
        (Computed(r) /\ r.cap /= None)
            => /\ 1 <= r.n /\ r.n <= Val(r.cap)
               /\ r.cap = Some(1) => r.n = 1

\* Cap 1 on a 6-core CPU, where the uncapped counts would be 5 and 2.
C5_Witness ==
    /\ w_physical = Some(6) /\ w_logical = Some(6)
    /\ w_xp = [n |-> 1, cap |-> Some(1)]
    /\ w_lzx = [n |-> 1, cap |-> Some(1)]
    /\ w_entropy = [n |-> 1, cap |-> Some(1)]

\* C6: with no cap and known core counts the XPRESS count is
\* max(1, logical - 1), and the LZX count is 1 for at most 4 physical cores and
\* 2 for more.
C6_UncappedCounts ==
    /\ (Computed(w_xp) /\ w_xp.cap = None /\ w_logical /= None)
          => w_xp.n = Max(1, Val(w_logical) - 1)
    /\ (Computed(w_lzx) /\ w_lzx.cap = None /\ w_physical /= None)
          => w_lzx.n = (IF Val(w_physical) <= 4 THEN 1 ELSE 2)

\* No cap, 5 physical and 6 logical cores: 5 XPRESS workers, 2 LZX workers.
C6_Witness ==
    /\ w_physical = Some(5) /\ w_logical = Some(6)
    /\ w_xp = [n |-> 5, cap |-> None]
    /\ w_lzx = [n |-> 2, cap |-> None]

\* C17: a call of set_worker_cap with a limit below 1 raises and leaves the
\* cap as it was before the call; a call with None or a limit of at least 1
\* does not raise and makes the limit the cap.
C17_InvalidCapRejected ==
    [][ IF w_limit' /= None /\ Val(w_limit') < 1
        THEN w_raised' /\ w_cap' = w_cap
        ELSE ~w_raised' /\ w_cap' = w_limit' ]_vars

\* A cap of 2 was configured, and a later call with a negative limit raised
\* and left it at 2; the counts computed afterwards still use 2.
C17_Witness ==
    /\ w_raised
    /\ w_limit = Some(0 - 1)
    /\ w_cap = Some(2)
    /\ Computed(w_xp) /\ w_xp.cap = Some(2)

(***************************************************************************)
(* The claims about the chunker.                                           *)
(***************************************************************************)

\* The batches yielded so far
Yielded == IF c_pc = "chunked" THEN c_batches ELSE c_state.batches

\* The path lengths that occur in the list
LengthsUsed == { path_len[i] : i \in DOMAIN path_len }

\* Sum of the quoted path lengths of a batch, taken length by length
RECURSIVE SumByLength(_, _)
SumByLength(batch, lengths) ==
    IF lengths = {} THEN 0
    ELSE LET l == CHOOSE x \in lengths : TRUE
         IN  (l + 3) * Cardinality({ j \in 1..Len(batch) : path_len[batch[j][1]] = l })
               + SumByLength(batch, lengths \ {l})

BatchLength(batch) == SumByLength(batch, LengthsUsed)

\* C3 as stated: no batch has a combined quoted length above 4000.
C3_Original ==
    \A b \in 1..Len(Yielded) : BatchLength(Yielded[b]) <= MAX_COMMAND_CHARS

\* C3 amended: no batch of two or more files has a combined quoted length above
\* 4000; a batch is longer only when it holds a single file whose own quoted
\* path is longer than 4000.
C3_BatchLengthBounded ==
    \A b \in 1..Len(Yielded) :
        \/ BatchLength(Yielded[b]) <= MAX_COMMAND_CHARS
        \/ /\ Len(Yielded[b]) = 1
           /\ QuotedLength(Yielded[b][1][1]) > MAX_COMMAND_CHARS

\* A list whose quoted lengths sum above the budget was split into several
\* batches, one of them filled to exactly 4000 by four files.
C3_Witness ==
    /\ c_pc = "chunked"
    /\ Len(c_batches) >= 2
    /\ \E b \in 1..Len(c_batches) :
          Len(c_batches[b]) = 4 /\ BatchLength(c_batches[b]) = MAX_COMMAND_CHARS

\* C4: no batch holds more than 100 files.
C4_BatchCountBounded ==
    \A b \in 1..Len(Yielded) : Len(Yielded[b]) <= BATCH_SIZE

\* More than 100 short paths were split by the file count: a full batch of 100
\* well under the length budget, followed by another batch.
C4_Witness ==
    /\ c_pc = "chunked"
    /\ Len(c_entries) > BATCH_SIZE
    /\ Len(c_batches) = 2
    /\ Len(c_batches[1]) = BATCH_SIZE
    /\ BatchLength(c_batches[1]) < MAX_COMMAND_CHARS

(***************************************************************************)
(* The claims about the execution scheduler.                               *)
(***************************************************************************)

\* The paths of a run
PlanPaths == DOMAIN x_calls

\* The main thread has taken the batch of path p and is done with p
Handled(p) ==
    /\ x_batch_out[p] /= "none"
    /\ ~(x_cur /= 0 /\ \E j \in x_k..Len(x_batches[x_cur]) : x_batches[x_cur][j][1] = p)

\* The single-file call of path p ended without success
SingleFailed(p) == x_single[p] \in {"rc1", "oserror"}

\* C2: when a batch call returns non-zero or raises, exactly one single-file
\* compression call is issued for each file of the batch and the file is counted
\* by the outcome of that call: compressed if it succeeded, skipped if it failed.
\* A file is counted as skipped only when its own single-file call failed, and
\* skipped_files is the number of files whose single-file call failed.
C2_FallbackPerFile ==
    /\ \A p \in PlanPaths :
         /\ x_calls[p] <= 1
         /\ (x_batch_out[p] \in {"failed", "raised"} /\ Handled(p)) =>
               /\ x_calls[p] = 1
               /\ IF x_single[p] = "rc0"
                  THEN x_comp[p] = 1 /\ x_skip[p] = 0
                  ELSE x_comp[p] = 0 /\ x_skip[p] = 1
         /\ x_skip[p] > 0 => (x_calls[p] = 1 /\ SingleFailed(p))
    /\ x_stats.skipped_files = Cardinality({ p \in PlanPaths : SingleFailed(p) })

\* A batch of two files returned non-zero; the single-file call of one file
\* succeeded and that of the other failed; the run is over.
C2_Witness ==
    /\ x_pc = "returned"
    /\ Len(x_batches) = 1
    /\ Len(x_batches[1]) = 2
    /\ x_fut[1] = "failed"
    /\ x_single[x_batches[1][1][1]] = "rc0"
    /\ x_single[x_batches[1][2][1]] = "rc1"
    /\ x_stats.compressed_files = 1
    /\ x_stats.skipped_files = 1

\* C13: when a batch call returns 0, every file of the batch is counted as
\* compressed once and never as skipped, whatever its verification shows, and no
\* single-file call is issued for it; compressed_files grows by the batch size.
C13_BatchSuccessCredits ==
    /\ \A p \in PlanPaths :
         x_batch_out[p] = "ok" =>
            /\ x_calls[p] = 0
            /\ x_skip[p] = 0
            /\ x_comp[p] = IF Handled(p) THEN 1 ELSE 0
    /\ (x_pc = "returned" /\ \A p \in PlanPaths : x_batch_out[p] = "ok") =>
          /\ x_stats.compressed_files = Len(x_plan)
          /\ x_stats.skipped_files = 0

\* A batch of two files returned 0; the verification of one file showed half the
\* size, that of the other no reduction; both are counted as compressed.
C13_Witness ==
    /\ x_pc = "returned"
    /\ Len(x_batches) = 1
    /\ Len(x_batches[1]) = 2
    /\ x_fut[1] = "ok"
    /\ x_stats.errors = <<>>
    /\ x_stats.total_compressed_size = x_plan[1][2] + (x_plan[2][2] \div 2)
    /\ x_stats.compressed_files = 2
    /\ x_stats.skipped_files = 0

\* C14: when a single-file compression call ends without success, skipped_files
\* grows by 1, the file's original size is added to total_compressed_size and to
\* total_skipped_size, compressed_files and the error list stay as they are, and
\* the run goes on: the main thread moves to the next file of the batch or back
\* to waiting for the next batch.
C14_SingleFailureSkips ==
    [][ (x_active /= 0 /\ x_active' = 0 /\ x_single'[x_active] \in {"rc1", "oserror"}) =>
           /\ x_stats' = [x_stats EXCEPT
                            !.locked = @ + 1,
                            !.skipped_files = @ + 1,
                            !.total_compressed_size = @ + x_plan[x_active][2],
                            !.total_skipped_size = @ + x_plan[x_active][2]]
           /\ x_pc' = "group"
           /\ IF x_k < Len(x_batches[x_cur])
              THEN x_cur' = x_cur /\ x_k' = x_k + 1
              ELSE x_cur' = 0 ]_vars

\* The single-file call of the first file of a failed batch of two failed, the
\* run went on and compressed the second file.
C14_Witness ==
    /\ x_pc = "returned"
    /\ Len(x_batches) = 1
    /\ Len(x_batches[1]) = 2
    /\ x_single[x_batches[1][1][1]] = "rc1"
    /\ x_single[x_batches[1][2][1]] = "rc0"
    /\ x_stats.skipped_files = 1
    /\ x_stats.total_skipped_size = x_batches[1][1][2]
    /\ x_stats.compressed_files = 1

\* The step ends the single-file call in progress
SingleCallEnds == x_active /= 0 /\ x_active' = 0

\* The step appends a verification error to the error list
VerifyErrorAppended ==
    \E p \in PlanPaths : x_stats'.errors = Append(x_stats.errors, <<"verify", p>>)

C1_PruningMonotonic ==
    /\ \A k \in 1..Len(p_denied) :
         \A i \in (p_denied[k][2] + 1)..Len(p_yielded) :
             ~Under(p_yielded[i], p_denied[k][1])
    /\ p_pc = "planned" =>
         \A k \in 1..Len(p_stats.directory_skips), i \in 1..Len(p_plan) :
             ~Under(p_plan[i][1], p_stats.directory_skips[k].path)

\* The walker pruned a cache directory, the planner denied <<1, 1>> for its low
\* savings and removed the eligible file two levels below it, and the plan still
\* holds a file.
C1_Witness ==
    /\ p_pc = "planned"
    /\ \E k \in 1..Len(p_stats.directory_skips) :
         p_stats.directory_skips[k] = DirectorySkipRecord(<<1, 2>>, "cache")
    /\ \E k \in 1..Len(p_stats.directory_skips) :
         p_stats.directory_skips[k] = DirectorySkipRecord(<<1, 1>>, "high_entropy")
    /\ \E i \in 1..Len(p_yielded) : p_yielded[i] = <<1, 1, 1, 9>>
    /\ \E k \in 1..Len(p_stats.file_skips) :
         /\ p_stats.file_skips[k].path = <<1, 1, 1, 9>>
         /\ p_stats.file_skips[k].reason = ReasonHighEntropy
    /\ Len(p_plan) > 0

(***************************************************************************)
(* The claims about the size categories.                                   *)
(***************************************************************************)

\* C12: the thresholds are strictly increasing, and get_size_category maps every
\* size to exactly one label over half-open intervals: the label of the first
\* threshold that is greater than the size, and 'large' for every size at or
\* above the last threshold.  A size of threshold - 1 falls in the bucket below
\* the threshold, a size equal to a threshold in the next bucket.
C12_HalfOpenBuckets ==
    /\ \A i \in 1..(Len(SIZE_THRESHOLDS) - 1) :
         SIZE_THRESHOLDS[i][1] < SIZE_THRESHOLDS[i + 1][1]
    /\ g_category \notin {"", "idle"} =>
         /\ g_category \in {"tiny", "small", "medium", "large"}
         /\ \A i \in 1..Len(SIZE_THRESHOLDS) :
              g_category = SIZE_THRESHOLDS[i][2] <=>
                 /\ g_size < SIZE_THRESHOLDS[i][1]
                 /\ i > 1 => g_size >= SIZE_THRESHOLDS[i - 1][1]
         /\ g_category = "large" <=> g_size >= SIZE_THRESHOLDS[Len(SIZE_THRESHOLDS)][1]

\* A size exactly equal to the second threshold (256 KiB) was put in the bucket
\* above it.
C12_Witness ==
    /\ g_size = SIZE_THRESHOLDS[2][1]
    /\ g_category = "medium"

\* The number of entries of seq that satisfy Test
CountIn(seq, Test(_)) == Cardinality({ k \in 1..Len(seq) : Test(seq[k]) })

\* plan_compression's own stat() of the i-th yielded file raised OSError
StatRaised(i) == ~p_profiles[i].plan_stat_ok

\* The size plan_compression knows of a file whose stat() raised
KnownSize(i) == IF p_profiles[i].fallback_stat_ok THEN p_profiles[i].size ELSE 0

\* The sum of a sequence of numbers
RECURSIVE SumSeq(_)
SumSeq(seq) == IF seq = <<>> THEN 0 ELSE Head(seq) + SumSeq(Tail(seq))

\* What the i-th yielded file adds to total_skipped_size: nothing when it is in
\* the plan, the size known of it when its stat() raised, else its size
SkipCredit(i) ==
    IF \E k \in 1..Len(p_plan) : p_plan[k][1] = p_yielded[i] THEN 0
    ELSE IF StatRaised(i) THEN KnownSize(i)
    ELSE p_profiles[i].size

\* C16: when the stat() of a file raises OSError during plan_compression, one entry
\* for the file is appended to stats.errors, the file is recorded as exactly one
\* skip, credited with its size if the second stat() succeeds and with nothing
\* otherwise, and the file does not enter the plan; every other input file is still
\* classified: it is in the plan or has a skip record.
C16_StatErrorSkipsFile ==
    p_pc = "planned" =>
      /\ \A i \in 1..Len(p_yielded) :
           LET f == p_yielded[i]
           IN  /\ CountIn(p_stats.errors, LAMBDA e : e = <<"processing", f>>)
                    = IF StatRaised(i) THEN 1 ELSE 0
               /\ CountIn(p_plan, LAMBDA c : c[1] = f)
                    + CountIn(p_stats.file_skips, LAMBDA r : r.path = f) = 1
               /\ StatRaised(i) =>
                    /\ CountIn(p_plan, LAMBDA c : c[1] = f) = 0
                    /\ CountIn(p_stats.file_skips,
                               LAMBDA r : r.path = f /\ r.reason = ReasonProcessing) = 1
      /\ p_stats.total_skipped_size =
           SumSeq([i \in 1..Len(p_yielded) |-> SkipCredit(i)])

\* Of the four files walked, the stat() of the first raised and its second stat()
\* succeeded, the second had vanished, and the two files after them were still
\* classified and planned.
C16_Witness ==
    /\ p_pc = "planned"
    /\ Len(p_yielded) = 4
    /\ StatRaised(1) /\ KnownSize(1) > 0
    /\ StatRaised(2) /\ KnownSize(2) = 0
    /\ Len(p_stats.errors) = 2
    /\ p_stats.total_skipped_size = KnownSize(1)
    /\ Len(p_plan) = 2

\* A file the planner could select: present, of a suffix that is not deny-listed,
\* and of at least the minimum size
EligibleFile(profile) ==
    /\ Lower(profile.suffix) \notin SKIP_EXTENSIONS
    /\ profile.stat_ok = <<TRUE, TRUE>>
    /\ profile.size >= MIN_COMPRESSIBLE_SIZE

\* A file that is stored compressed: it takes less room than its size, or the
\* status query counts it as compressed
StoredCompressed(profile) ==
    \/ profile.alloc < profile.size
    \/ profile.alloc = profile.size /\ profile.compact = "not0"

FullyCompressedTree ==
    \A i \in 1..Len(p_profiles) :
        EligibleFile(p_profiles[i]) => StoredCompressed(p_profiles[i])

\* C18: with thorough_check set, on a tree whose every eligible file is stored
\* compressed the planner returns the empty plan, and returns it again when it
\* is run a second time on the same tree.
C18_CompressedTreePlansNothing ==
    (p_thorough /\ FullyCompressedTree) =>
        /\ p_pc \in {"planned", "planned_twice"} => p_plan = <<>>
        /\ p_pc = "planned_twice" => p_again = <<>>

\* Four files were walked, three of them eligible files that the status query
\* reports as compressed and one of a deny-listed suffix; both runs planned nothing.
C18_Witness ==
    /\ p_pc = "planned_twice"
    /\ p_thorough
    /\ Len(p_yielded) = 4
    /\ FullyCompressedTree
    /\ Cardinality({ i \in 1..4 : EligibleFile(p_profiles[i]) }) = 3
    /\ p_plan = <<>>
    /\ p_again = <<>>

\* The candidates and the stats of plan_compression before its second pass
Scanned ==
    plan_files(p_yielded, p_profiles, p_thorough, 1,
               [candidates |-> <<>>, stats |-> p_walked])

\* The directories the second pass puts to the policy besides base_dir
CandidateParents(candidates) ==
    { Parent(candidates[i][1]) : i \in 1..Len(candidates) }

\* The entropy-savings policy denies the directory: it is not base_dir, it could
\* be sampled, and its estimated savings are below the threshold
LowSavings(directory) ==
    /\ directory /= BaseDir
    /\ estimated_savings(directory) /= None
    /\ Val(estimated_savings(directory)) < p_min_savings

\* The parent of the file, or an ancestor of it up to base_dir, is one of the
\* directories put to the policy in the second pass and is denied by it
DeniedAncestor(file_path, parents) ==
    \E a \in parents :
        /\ a = Parent(file_path) \/ Under(Parent(file_path), a)
        /\ LowSavings(a)

\* C19: with a positive threshold, a candidate whose parent or other ancestor is
\* denied by the entropy-savings policy in the second pass leaves the plan and
\* gets one skip record with the high-entropy reason, its size being added to
\* the skipped bytes; the candidates without a denied ancestor are the plan, in
\* the same order and with the same size and algorithm.
C19_DeniedAncestorRemoves ==
    (p_pc = "planned" /\ p_min_savings > 0) =>
        LET scan == Scanned
            parents == CandidateParents(scan.candidates)
            removed == SelectSeq(scan.candidates,
                                 LAMBDA c : DeniedAncestor(c[1], parents))
        IN  /\ p_plan = SelectSeq(scan.candidates,
                                  LAMBDA c : ~DeniedAncestor(c[1], parents))
            /\ \A i \in 1..Len(removed) :
                  /\ CountIn(p_stats.file_skips, LAMBDA r : r.path = removed[i][1]) = 1
                  /\ CountIn(p_stats.file_skips,
                             LAMBDA r : /\ r.path = removed[i][1]
                                        /\ r.reason = ReasonHighEntropy
                                        /\ r.category = "high_entropy") = 1
            /\ p_stats.skipped_files = scan.stats.skipped_files + Len(removed)
            /\ p_stats.skip_low_savings_files = Len(removed)
            /\ p_stats.total_skipped_size =
                  scan.stats.total_skipped_size
                    + SumSeq([i \in 1..Len(removed) |-> removed[i][2]])

\* The walker did not sample; all four files were candidates; the directory
\* <<1, 1>> is denied and its sub-directory is not, and the file of each of the
\* two left the plan, the one of the sub-directory through its grandparent.
C19_Witness ==
    /\ p_pc = "planned"
    /\ ~p_collect /\ p_min_savings > 0
    /\ LowSavings(<<1, 1>>) /\ ~LowSavings(<<1, 1, 1>>) /\ ~LowSavings(<<1, 2>>)
    /\ p_stats.skip_low_savings_files = 2
    /\ Len(p_plan) = 2
    /\ LET scan == Scanned
       IN  /\ Len(scan.candidates) = 4
           /\ p_plan = SelectSeq(scan.candidates,
                                 LAMBDA c : c[1] \in {<<1, 9>>, <<1, 2, 9>>})

\* C20: the entropy-savings policy yields no skip record for base_dir, whatever
\* its sample: no high-entropy record of base_dir is ever appended to the stats,
\* and every candidate that lies directly in base_dir is in the final plan.
C20_BaseNeverDenied ==
    /\ \A k \in 1..Len(p_stats.directory_skips) :
          ~(/\ p_stats.directory_skips[k].path = BaseDir
            /\ p_stats.directory_skips[k].category = "high_entropy")
    /\ p_pc = "planned" =>
          LET scan == Scanned
          IN  \A i \in 1..Len(scan.candidates) :
                  Parent(scan.candidates[i][1]) = BaseDir =>
                      CountIn(p_plan, LAMBDA c : c = scan.candidates[i]) = 1

\* base_dir samples as dense under a threshold of 50 and so does <<1, 2>>: the
\* second pass removed the candidate in <<1, 2>> and kept the one in base_dir.
C20_Witness ==
    /\ p_pc = "planned"
    /\ p_min_savings > 0
    /\ p_kind[BaseDir] = "dense" /\ p_kind[<<1, 2>>] = "dense"
    /\ Val(estimated_savings(BaseDir)) < p_min_savings
    /\ CountIn(p_plan, LAMBDA c : c[1] = <<1, 9>>) = 1
    /\ CountIn(p_stats.file_skips,
               LAMBDA r : r.path = <<1, 2, 9>> /\ r.category = "high_entropy") = 1

\* C21: every high-entropy skip record is of a directory that has a savings
\* estimate below the threshold; a directory whose sample is null has no such
\* record, and after planning none of its candidates was removed on its account.
C21_NullSampleNeverDenied ==
    /\ \A k \in 1..Len(p_stats.directory_skips) :
          p_stats.directory_skips[k].category = "high_entropy" =>
              /\ estimated_savings(p_stats.directory_skips[k].path) /= None
              /\ Val(estimated_savings(p_stats.directory_skips[k].path)) < p_min_savings
    /\ p_pc = "planned" =>
          LET scan == Scanned
          IN  \A i \in 1..Len(scan.candidates) :
                  LET parent == Parent(scan.candidates[i][1])
                  IN  (/\ estimated_savings(parent) = None
                       /\ \A a \in TreeDirs : Under(parent, a) => ~LowSavings(a))
                        => CountIn(p_plan, LAMBDA c : c = scan.candidates[i]) = 1

\* Under a threshold of 50 the walker sampled: <<1, 1>> could not be sampled and
\* was walked, its file is in the plan; <<1, 2>> sampled as dense and was denied.
C21_Witness ==
    /\ p_pc = "planned"
    /\ p_collect /\ p_min_savings > 0
    /\ p_kind[<<1, 1>>] = "unsampled" /\ p_kind[<<1, 2>>] = "dense"
    /\ CountIn(p_plan, LAMBDA c : c[1] = <<1, 1, 9>>) = 1
    /\ CountIn(p_stats.directory_skips,
               LAMBDA r : r.path = <<1, 2>> /\ r.category = "high_entropy") = 1
    /\ CountIn(p_stats.directory_skips, LAMBDA r : r.path = <<1, 1>>) = 0

(***************************************************************************)
(* The claims about the legacy branding pass.                              *)
(***************************************************************************)

\* The file is of at least the minimum size, has no deny-listed extension and is
\* not marked compressed, as far as the pass looks
NeedsBranding(i) ==
    /\ Lower(l_files[i].suffix) \notin SKIP_EXTENSIONS
    /\ l_files[i].stat_ok = <<TRUE, TRUE>>
    /\ l_files[i].size >= MIN_COMPRESSIBLE_SIZE
    /\ l_files[i].alloc >= l_files[i].size
    /\ ~(l_thorough /\ l_files[i].alloc = l_files[i].size /\ l_files[i].compact = "not0")

\* The futures the main thread has handled and whose call returned True
BrandedCalls == { t \in l_taken : l_fut[t] = "ok" }

\* C22: in the legacy branding pass no file gets more than one compression call,
\* only files that need branding get one, and at the return each of them has got
\* exactly one; total_files is the number of files walked; a target whose call
\* succeeded is counted once, as branded or as still unmarked, and a target whose
\* call did not succeed is counted as neither; the error list holds only failed
\* stat() calls and calls that raised.
C22_BrandingTargetsOnce ==
    /\ \A i \in DOMAIN l_files :
          /\ l_marks[i].calls <= 1
          /\ l_marks[i].calls = 1 => NeedsBranding(i)
          /\ (l_pc = "returned" /\ NeedsBranding(i)) => l_marks[i].calls = 1
    /\ l_pc \in {"branding", "returned"} => l_stats.total_files = Len(l_files)
    /\ \A t \in DOMAIN l_fut :
          l_marks[l_targets[t]].branded + l_marks[l_targets[t]].unmarked
            = IF t \in BrandedCalls THEN 1 ELSE 0
    /\ l_stats.branded_files + l_stats.still_unmarked = Cardinality(BrandedCalls)
    /\ \A k \in 1..Len(l_stats.errors) :
          \/ /\ l_stats.errors[k][1] = "checking"
             /\ ~l_files[l_stats.errors[k][2]].stat_ok[1]
          \/ /\ l_stats.errors[k][1] = "exception"
             /\ \E t \in l_taken : l_targets[t] = l_stats.errors[k][2] /\ l_fut[t] = "raised"

\* Three files that need branding were walked with two workers: two calls
\* succeeded, one file was branded and one is still unmarked, the third call
\* failed; nothing was added to the error list.
C22_Witness ==
    /\ l_pc = "returned"
    /\ l_workers = 2
    /\ Len(l_files) = 3 /\ Len(l_targets) = 3
    /\ l_fut = <<"ok", "ok", "failed">>
    /\ l_stats = [total_files |-> 3, branded_files |-> 1, still_unmarked |-> 1,
                  errors |-> <<>>]
    /\ \A i \in 1..3 : l_marks[i].calls = 1

(***************************************************************************)
(* The claims about the order and the concurrency of the execution.        *)
(***************************************************************************)

\* The position of the first plan entry with the algorithm
FirstEntry(algorithm) ==
    CHOOSE i \in DOMAIN x_plan :
        /\ x_plan[i][3] = algorithm
        /\ \A j \in 1..(i - 1) : x_plan[j][3] /= algorithm

\* The group of a path: the index of its algorithm in x_groups
GroupOf(p) == CHOOSE g \in DOMAIN x_groups : x_groups[g][1] = x_plan[p][3]

\* C23: the groups are the algorithms of the plan in the order of their first
\* entry; while a group is processed the batches in the pool hold files of that
\* group only, every file of an earlier group has been counted in the stats, and
\* no file of a later group has been touched.
C23_GroupsSequential ==
    x_pc \in {"group", "returned"} =>
        /\ { x_groups[g][1] : g \in DOMAIN x_groups } = { x_plan[i][3] : i \in DOMAIN x_plan }
        /\ \A g \in DOMAIN x_groups, h \in DOMAIN x_groups :
              g < h => FirstEntry(x_groups[g][1]) < FirstEntry(x_groups[h][1])
        /\ \A b \in DOMAIN x_batches :
              \A j \in DOMAIN x_batches[b] : GroupOf(x_batches[b][j][1]) = x_g
        /\ \A p \in PlanPaths :
              /\ GroupOf(p) < x_g => x_comp[p] + x_skip[p] = 1
              /\ GroupOf(p) > x_g =>
                    /\ x_comp[p] + x_skip[p] = 0
                    /\ x_calls[p] = 0
                    /\ x_batch_out[p] = "none"

\* The plan holds an LZX file before an XPRESS4K file: the batch of the second
\* group is running, and the file of the first group has been counted.
C23_Witness ==
    /\ x_pc = "group"
    /\ Len(x_plan) = 2
    /\ x_plan[1][3] = "LZX" /\ x_plan[2][3] = "XPRESS4K"
    /\ x_groups[1][1] = "LZX"
    /\ x_g = 2
    /\ x_fut = <<"running">>
    /\ x_comp[1] + x_skip[1] = 1
    /\ x_stats.compressed_files + x_stats.skipped_files = 1

\* The invocations of the compression primitive in progress: the batch calls of
\* the pool and the single-file call of the main thread
InProgress == Running + (IF x_active /= 0 THEN 1 ELSE 0)

\* C24 as stated: never more invocations of the primitive in progress than the
\* worker limit of the group being processed.
C24_Original ==
    x_pc = "group" => InProgress <= workers_for(x_groups[x_g][1], x_xp, x_lzx)

\* C25: within a group the batch calls in flight never exceed lzx_workers for
\* the LZX group and xp_workers for every other group.
C25_BatchCallsBounded ==
    x_pc = "group" =>
        Running <= (IF x_groups[x_g][1] = "LZX" THEN x_lzx ELSE x_xp)

\* Two LZX files whose paths need a batch each, one LZX worker and two XPRESS
\* workers: one batch call is running and the other batch waits for the worker.
C25_Witness ==
    /\ x_pc = "group"
    /\ x_groups[x_g][1] = "LZX"
    /\ x_lzx = 1 /\ x_xp = 2
    /\ x_fut = <<"running", "pending">>

\* The file was counted as compressed: its batch call returned 0, or its own
\* single-file call did
CompressedBy(p) == x_batch_out[p] = "ok" \/ x_single[p] = "rc0"

\* The size credited to a compressed file: its original size when the
\* verification raised, else the allocated size the verification found
VerifiedSize(p) ==
    LET v == CHOOSE w \in x_verify[p] : TRUE
    IN IF v.raises THEN x_plan[p][2] ELSE AllocAfter(x_plan[p][2], v)

\* C26: at the return the four totals are sums, over the plan entries, of a term
\* that depends only on the entry and on the outcomes of its own calls (batch
\* call, single-file call, verification); no completion order or interleaving
\* enters them.
C26_TotalsOrderFree ==
    x_pc = "returned" =>
        /\ x_stats.compressed_files = Cardinality({ p \in PlanPaths : CompressedBy(p) })
        /\ x_stats.skipped_files = Cardinality({ p \in PlanPaths : ~CompressedBy(p) })
        /\ x_stats.total_compressed_size =
              SumSeq([p \in 1..Len(x_plan) |->
                        IF CompressedBy(p) THEN VerifiedSize(p) ELSE x_plan[p][2]])
        /\ x_stats.total_skipped_size =
              SumSeq([p \in 1..Len(x_plan) |->
                        IF CompressedBy(p) THEN 0 ELSE x_plan[p][2]])

\* Two batches of one group ran on two workers: one returned 0 and its file
\* shrank, the other failed and so did its single-file call.
C26_Witness ==
    /\ x_pc = "returned"
    /\ Len(x_plan) = 2 /\ Len(x_batches) = 2
    /\ workers_for(x_groups[x_g][1], x_xp, x_lzx) = 2
    /\ x_fut = <<"failed", "ok">>
    /\ x_single[1] = "rc1"
    /\ \E v \in x_verify[2] : v.shrunk
    /\ x_stats.compressed_files = 1 /\ x_stats.skipped_files = 1
    /\ x_stats.total_skipped_size = x_plan[1][2]
    /\ x_stats.total_compressed_size = x_plan[1][2] + (x_plan[2][2] \div 2)

CountedOnce ==
    /\ \A p \in PlanPaths : x_comp[p] + x_skip[p] = 1
    /\ x_stats.compressed_files + x_stats.skipped_files = Len(x_plan)

\* C28: whatever the calls of the primitive return, execute_compression_plan
\* eventually returns, and when it has returned every plan entry has been counted
\* exactly once: compressed_files + skipped_files is the number of plan entries.
C28_ReturnsAllCounted ==
    /\ <>(x_pc = "returned")
    /\ [](x_pc = "returned" => CountedOnce)

\* The run returned after a batch that raised and a batch that returned non-zero,
\* with one single-file call failing and one succeeding.
C28_Witness ==
    /\ x_pc = "returned"
    /\ Len(x_plan) = 2
    /\ x_fut = <<"raised", "failed">>
    /\ x_single = <<"oserror", "rc0">>
    /\ CountedOnce

(***************************************************************************)
(* The claims about the accounting and the order of the second pass.       *)
(***************************************************************************)

\* The algorithm of config.py's table for a size: that of the first threshold
\* the size is below, LZX when it is below none
AlgorithmForSize(size) ==
    LET above == { t \in 1..Len(SIZE_THRESHOLDS) : size < SIZE_THRESHOLDS[t][1] }
    IN  IF above = {} THEN COMPRESSION_ALGORITHMS["large"]
        ELSE COMPRESSION_ALGORITHMS[
                 SIZE_THRESHOLDS[CHOOSE t \in above : \A u \in above : t <= u][2]]

\* The records that plan_compression appended to seq, which had `before` entries
AppendedTo(seq, before) == SubSeq(seq, before + 1, Len(seq))

\* C29: after plan_compression every yielded file is either one plan entry or
\* one file skip record of the call, never both; a plan entry carries the size
\* of its file and the algorithm of that size; plan entries plus the increase of
\* skipped_files number the input files, before and after the entropy re-filter.
C29_EveryFileAccountedOnce ==
    p_pc = "planned" =>
        LET scan == Scanned
            skips == AppendedTo(p_stats.file_skips, Len(p_walked.file_skips))
        IN  /\ \A i \in 1..Len(p_yielded) :
                  CountIn(p_plan, LAMBDA c : c[1] = p_yielded[i])
                    + CountIn(skips, LAMBDA r : r.path = p_yielded[i]) = 1
            /\ \A k \in 1..Len(p_plan) :
                  \E i \in 1..Len(p_yielded) :
                      /\ p_plan[k][1] = p_yielded[i]
                      /\ p_plan[k][2] = p_profiles[i].size
                      /\ p_plan[k][3] = AlgorithmForSize(p_profiles[i].size)
            /\ \A k \in 1..Len(skips) :
                  \E i \in 1..Len(p_yielded) : skips[k].path = p_yielded[i]
            /\ Len(scan.candidates) + scan.stats.skipped_files - p_walked.skipped_files
                  = Len(p_yielded)
            /\ Len(p_plan) + p_stats.skipped_files - p_walked.skipped_files
                  = Len(p_yielded)

\* Four files: one refused for its extension, one removed by the re-filter under
\* the denied <<1, 2>>, and two plan entries, one of the first and one of the
\* last size category.
C29_Witness ==
    /\ p_pc = "planned"
    /\ ~p_collect /\ p_min_savings > 0
    /\ Len(p_yielded) = 4
    /\ Len(p_plan) = 2
    /\ p_stats.skipped_files - p_walked.skipped_files = 2
    /\ CountIn(p_stats.file_skips,
               LAMBDA r : r.path = <<1, 2, 9>> /\ r.category = "high_entropy") = 1
    /\ CountIn(p_stats.file_skips,
               LAMBDA r : r.path = <<1, 9>> /\ r.category = "extension") = 1
    /\ \E k \in 1..Len(p_plan) : p_plan[k][3] = "XPRESS4K"
    /\ \E k \in 1..Len(p_plan) : p_plan[k][3] = "LZX"

\* C30: the second pass evaluates its directories by increasing depth, so every
\* directory comes after its ancestors among them; it records exactly the
\* directories with low savings that have no ancestor with low savings among
\* them, each once, it samples no directory beneath one of them, and no record
\* of the pass lies beneath another.
C30_ParentsDecidedFirst ==
    (p_pc = "planned" /\ p_min_savings > 0) =>
        LET scan == Scanned
            directories == CandidateParents(scan.candidates) \cup {BaseDir}
            order == SortedDirectories(directories)
            records == AppendedTo(p_stats.directory_skips, Len(p_walked.directory_skips))
        IN  scan.candidates /= <<>> =>
              /\ \A i \in 1..Len(order), j \in 1..Len(order) :
                    /\ i < j => Len(order[i]) <= Len(order[j])
                    /\ Under(order[j], order[i]) => i < j
              /\ \A d \in directories :
                    CountIn(records, LAMBDA r : r.path = d) =
                        IF /\ LowSavings(d)
                           /\ \A a \in directories : Under(d, a) => ~LowSavings(a)
                        THEN 1 ELSE 0
              /\ p_sampled =
                    { d \in directories \ {BaseDir} :
                        \A a \in directories : Under(d, a) => ~LowSavings(a) }
              /\ \A k \in 1..Len(records) :
                    /\ records[k].category = "high_entropy"
                    /\ records[k].path \in directories
                    /\ \A l \in 1..Len(records) :
                          ~Under(records[k].path, records[l].path)

\* <<1, 1>> and its sub-directory <<1, 1, 1>> both have low savings and both hold
\* a candidate: the pass recorded <<1, 1>> and never sampled <<1, 1, 1>>.
C30_Witness ==
    /\ p_pc = "planned"
    /\ ~p_collect /\ p_min_savings > 0
    /\ LowSavings(<<1, 1>>) /\ LowSavings(<<1, 1, 1>>)
    /\ LET scan == Scanned
       IN  {<<1, 1>>, <<1, 1, 1>>} \subseteq CandidateParents(scan.candidates)
    /\ CountIn(p_stats.directory_skips, LAMBDA r : r.path = <<1, 1>>) = 1
    /\ CountIn(p_stats.directory_skips, LAMBDA r : r.path = <<1, 1, 1>>) = 0
    /\ <<1, 1>> \in p_sampled /\ <<1, 1, 1>> \notin p_sampled

(***************************************************************************)
(* The claims about the ancestor lookup.                                   *)
(***************************************************************************)

\* The directory is base_dir or lies below it
AtOrBelow(path, base_dir) == path = base_dir \/ Under(path, base_dir)

\* C31: the lookup returns a list of at most one entry per part of the path plus
\* one; for a directory at or below base_dir the list runs from the directory
\* upward to base_dir inclusive and holds no directory above base_dir, and a
\* skipped directory decides the lookup only when it is on that list, so one
\* above base_dir never does.
C31_LookupStopsAtBase ==
    a_pc = "done" =>
        /\ Len(a_ancestors) <= Len(a_path) + 1
        /\ a_ancestors[1] = a_path
        /\ AtOrBelow(a_path, a_base) =>
              /\ Len(a_ancestors) = Len(a_path) - Len(a_base) + 1
              /\ \A i \in 1..Len(a_ancestors) :
                    /\ a_ancestors[i] = SubSeq(a_path, 1, Len(a_path) - i + 1)
                    /\ AtOrBelow(a_ancestors[i], a_base)
              /\ a_ancestors[Len(a_ancestors)] = a_base
              /\ a_has <=> \E d \in a_skipped :
                               AtOrBelow(a_path, d) /\ AtOrBelow(d, a_base)
              /\ a_has <=> a_found /= None
              /\ \A d \in a_found :
                    /\ d \in a_skipped
                    /\ AtOrBelow(a_path, d) /\ AtOrBelow(d, a_base)

\* A directory two levels below base_dir, while the only skipped directory is
\* the parent of base_dir: the lookup stopped at base_dir and found nothing.
C31_Witness ==
    /\ a_pc = "done"
    /\ Len(a_base) = 1 /\ Len(a_path) = 3 /\ Under(a_path, a_base)
    /\ a_skipped = {Parent(a_base)}
    /\ Len(a_ancestors) = 3
    /\ a_found = None /\ ~a_has

(***************************************************************************)
(* Further claims about the walker and the planner.                        *)
(***************************************************************************)

\* C32: when min_savings_percent <= 0 or the first pass left no candidate, the
\* second pass takes no entropy sample, leaves the stats as the first pass left
\* them (no directory skip record, no file skip) and returns the candidates of
\* the first pass unchanged.
C32_RefilterOffIsIdentity ==
    p_pc = "planned" =>
        LET scan == Scanned
        IN  (p_min_savings <= 0 \/ scan.candidates = <<>>) =>
                /\ p_sampled = {}
                /\ p_stats = scan.stats
                /\ p_stats.directory_skips = p_walked.directory_skips
                /\ p_plan = scan.candidates

\* With no threshold all four files became candidates although every directory
\* below base_dir would sample as dense; nothing was sampled and all four are
\* the plan.
C32_Witness ==
    /\ p_pc = "planned"
    /\ p_min_savings = 0
    /\ \A d \in TreeDirs \ {BaseDir} : p_kind[d] = "dense"
    /\ p_sampled = {}
    /\ Len(p_plan) = 4
    /\ p_stats.directory_skips = <<>>
    /\ p_stats.skipped_files = 0

(***************************************************************************)
(* The claims about the entropy sampler.                                   *)
(***************************************************************************)

\* The directories the sampler can get to: the root, and every directory whose
\* ancestors up to the root can all be listed
Reachable ==
    { d \in TreeDirs :
        \A a \in TreeDirs : (Under(d, a) /\ AtOrBelow(a, SampleRoot)) => a \notin s_locked }

\* Breadth-first order of the reachable directories: by depth, then by name
BreadthFirst == SortedDirectories(Reachable)

\* The files the sampler opens when no limit stops it, in the order it opens them
RECURSIVE FilesOf(_, _)
FilesOf(directories, i) ==
    IF i > Len(directories) THEN <<>>
    ELSE (IF \/ directories[i] \in s_locked
             \/ (s_skip_root /\ directories[i] = SampleRoot)
          THEN <<>>
          ELSE Listing(SampleFiles, directories[i]))
           \o FilesOf(directories, i + 1)

\* The bytes the sampler reads from a file it opens
BytesOf(file) ==
    IF ~s_kind[file].readable THEN 0 ELSE Min(Len(s_kind[file].content), ChunkSize)

\* C33: the directories are visited in breadth-first order; at no time have more
\* than max_files files been sampled or max_bytes + chunk_size bytes or more; and
\* once a limit is reached no further file is opened and no directory visited.
C33_SamplerBounded ==
    /\ [](/\ s_visited = SubSeq(BreadthFirst, 1, Len(s_visited))
          /\ s_files <= s_max_files
          /\ s_bytes < s_max_bytes + ChunkSize
          /\ s_pc = "done" => (s_result[2] = s_files /\ s_result[3] = s_bytes))
    /\ [][ (s_files >= s_max_files \/ s_bytes >= s_max_bytes) =>
              (s_opened' = s_opened /\ s_visited' = s_visited) ]_vars

\* Under a byte limit of ByteLimit the sampler read one byte in the root and a full
\* chunk in <<1, 2>>, reported one byte more than the limit, and returned without
\* visiting <<1, 1, 1>>, whose file is readable.
C33_Witness ==
    /\ s_pc = "done"
    /\ s_max_bytes = ByteLimit
    /\ s_result[3] = ByteLimit + 1
    /\ s_visited = << <<1>>, <<1, 1>>, <<1, 2>> >>
    /\ s_locked = {}
    /\ s_kind[<<1, 1, 1, 9>>] = Holding(<<7, 8, 9>>)
    /\ <<1, 1, 1, 9>> \notin { s_opened[i] : i \in 1..Len(s_opened) }

\* C34: when no limit has stopped the sampling, every reachable directory was
\* visited and every file of a listable directory was opened, whatever could not
\* be listed or read before it, and the counts are those of the readable files;
\* the entropy returned is null exactly when zero bytes were sampled.
C34_UnreadableSkipped ==
    s_pc = "done" =>
        /\ s_result[1] = None <=> s_result[3] = 0
        /\ (s_files < s_max_files /\ s_bytes < s_max_bytes) =>
              LET files == FilesOf(BreadthFirst, 1)
              IN  /\ s_visited = BreadthFirst
                  /\ s_opened = files
                  /\ s_files = CountIn(files, LAMBDA f : BytesOf(f) > 0)
                  /\ s_bytes = SumSeq([i \in 1..Len(files) |-> BytesOf(files[i])])

\* <<1, 1>> could not be listed and the first file of the root could not be
\* read; the sampler went on to <<1, 2>> and sampled its file.
C34_Witness ==
    /\ s_pc = "done"
    /\ s_locked = {<<1, 1>>}
    /\ ~s_skip_root
    /\ s_kind[<<1, 0>>] = Unreadable
    /\ s_kind[<<1, 2, 9>>] = Holding(<<7>>)
    /\ s_visited = << <<1>>, <<1, 1>>, <<1, 2>> >>
    /\ s_opened = << <<1, 0>>, <<1, 9>>, <<1, 2, 9>> >>
    /\ s_result[1] /= None
    /\ s_result[2] < s_max_files /\ s_result[3] < s_max_bytes

(***************************************************************************)
(* The claims about the protected-path policy.                             *)
(***************************************************************************)

\* The components of a path string: the text between separators, / or \
RECURSIVE Components(_, _, _)
Components(text, i, current) ==
    IF i > Len(text) THEN (IF current = <<>> THEN <<>> ELSE <<current>>)
    ELSE IF text[i] \in {Sep, "/"}
    THEN (IF current = <<>> THEN <<>> ELSE <<current>>) \o Components(text, i + 1, <<>>)
    ELSE Components(text, i + 1, Append(current, text[i]))

\* The path is a protected directory or lies below one, component by component
\* and whatever the case of the letters
ProtectedByComponents(text) ==
    LET parts == Components(normcase(text), 1, <<>>)
    IN  \E i \in 1..Len(DEFAULT_EXCLUDE_DIRECTORIES) :
            LET protected == Components(normcase(DEFAULT_EXCLUDE_DIRECTORIES[i]), 1, <<>>)
            IN  Len(protected) <= Len(parts)
                  /\ SubSeq(parts, 1, Len(protected)) = protected

\* C35: should_skip_directory denies a directory exactly when its path, whatever
\* its case and its separators, is a protected directory or lies below one; a
\* directory whose name only begins with the name of a protected directory is
\* allowed.
C35_ProtectedPathBoundary ==
    k_pc = "done" =>
        /\ k_result.skip <=> ProtectedByComponents(k_path)
        /\ k_result.skip =>
              k_result.reason[1] =
                  IF normalize_for_compare(k_path)
                       \in { normalize_for_compare(DEFAULT_EXCLUDE_DIRECTORIES[i]) :
                               i \in 1..Len(DEFAULT_EXCLUDE_DIRECTORIES) }
                  THEN "Protected" ELSE "Within"

\* c:\WindowsApps\System32 was allowed: its first name only begins with Windows.
C35_Witness ==
    /\ k_pc = "done"
    /\ k_path = <<"c", ":", "\\", "W", "i", "n", "d", "o", "w", "s", "A", "p", "p", "s", "\\", "S", "y", "s", "t", "e", "m", "3", "2">>
    /\ ~k_result.skip

(***************************************************************************)
(* The claims about the directory policies during the walk.                *)
(***************************************************************************)

\* The category of the first policy, in the order protected-path, cache
\* heuristic, entropy savings, that denies the directory; "" when none does
FirstDenial(directory) ==
    IF should_skip_directory(directory) THEN "system"
    ELSE IF cache_directory_reason(directory) THEN "cache"
    ELSE IF p_collect /\ LowSavings(directory) THEN "high_entropy"
    ELSE ""

\* seq is `before` with entries appended
Extends(seq, before) ==
    Len(before) <= Len(seq) /\ SubSeq(seq, 1, Len(before)) = before

\* C36: every record in the list is of a directory put to the policy and carries
\* the category of the first policy that denies it; a directory put to the policy
\* has one record when a policy denies it and none when all allow it; no
\* directory beneath a denied directory is put to the policy; and a step only
\* appends to the list.
C36_PoliciesInOrder ==
    /\ [](/\ \A k \in 1..Len(p_stats.directory_skips) :
                /\ p_stats.directory_skips[k].category =
                      FirstDenial(p_stats.directory_skips[k].path)
                /\ CountIn(p_evaluated,
                           LAMBDA d : d = p_stats.directory_skips[k].path) = 1
          /\ \A j \in 1..Len(p_evaluated) :
                /\ CountIn(p_stats.directory_skips,
                           LAMBDA r : r.path = p_evaluated[j]) =
                      IF FirstDenial(p_evaluated[j]) = "" THEN 0 ELSE 1
                /\ \A a \in TreeDirs :
                      Under(p_evaluated[j], a) => FirstDenial(a) = "")
    /\ [][Extends(p_stats'.directory_skips, p_stats.directory_skips)]_vars

\* The walker sampled. <<1, 1>> is protected, a cache directory and dense, and
\* got one record, of the protected-path policy; <<1, 2>> is a cache directory
\* and dense and got one of the cache heuristic; <<1, 1, 1>> was never put to
\* the policy.
C36_Witness ==
    /\ p_pc = "walked"
    /\ p_collect
    /\ p_kind[<<1, 1>>] = "system+cache+dense"
    /\ p_kind[<<1, 2>>] = "cache+dense"
    /\ p_evaluated = << <<1>>, <<1, 1>>, <<1, 2>> >>
    /\ Len(p_stats.directory_skips) = 2
    /\ p_stats.directory_skips[1].category = "system"
    /\ p_stats.directory_skips[2].category = "cache"

(***************************************************************************)
(* Further claims about the chunker.                                       *)
(***************************************************************************)

\* The batches joined in the order they were yielded
RECURSIVE Flatten(_)
Flatten(batches) ==
    IF batches = <<>> THEN <<>> ELSE Head(batches) \o Flatten(Tail(batches))

\* C37: while _chunk runs, the batches yielded followed by the open batch are
\* the entries taken so far, in order, and no yielded batch is empty; when it has
\* finished, the batches joined in order are the input list, every entry is in
\* exactly one batch, and no batch is empty.
C37_ChunkPartitions ==
    /\ Flatten(c_state.batches) \o c_state.current = SubSeq(c_entries, 1, c_i - 1)
    /\ \A b \in 1..Len(c_state.batches) : c_state.batches[b] /= <<>>
    /\ c_pc = "chunked" =>
          /\ Flatten(c_batches) = c_entries
          /\ \A b \in 1..Len(c_batches) : c_batches[b] /= <<>>
          /\ \A i \in 1..Len(c_entries) :
                Cardinality({ b \in 1..Len(c_batches) :
                                \E j \in 1..Len(c_batches[b]) :
                                    c_batches[b][j] = c_entries[i] }) = 1

\* 102 short paths were chunked into a batch of 100 and a batch of the last two.
C37_Witness ==
    /\ c_pc = "chunked"
    /\ Len(c_entries) = BATCH_SIZE + 2
    /\ Len(c_batches) = 2
    /\ c_batches[2] = SubSeq(c_entries, BATCH_SIZE + 1, BATCH_SIZE + 2)
    /\ Flatten(c_batches) = c_entries

(***************************************************************************)
(* The claims about the stats.                                             *)
(***************************************************************************)

\* The three counters of skip categories, added up
SubCounters(stats) ==
    stats.already_compressed_files + stats.skip_extension_files
      + stats.skip_low_savings_files

\* C38: the three sub-counters add up to at most skipped_files and there are at
\* most skipped_files file skip records; no count, size total or list gets
\* smaller in a step; and a step that appends a file skip record adds exactly 1
\* to skipped_files and 1 to at most one of the three sub-counters.
C38_SkipCountersConsistent ==
    /\ [](t_calls > 0 =>
            /\ SubCounters(t_stats) <= t_stats.skipped_files
            /\ Len(t_stats.file_skips) <= t_stats.skipped_files)
    /\ [][ /\ t_stats'.compressed_files >= t_stats.compressed_files
           /\ t_stats'.skipped_files >= t_stats.skipped_files
           /\ t_stats'.already_compressed_files >= t_stats.already_compressed_files
           /\ t_stats'.skip_extension_files >= t_stats.skip_extension_files
           /\ t_stats'.skip_low_savings_files >= t_stats.skip_low_savings_files
           /\ t_stats'.total_original_size >= t_stats.total_original_size
           /\ t_stats'.total_compressed_size >= t_stats.total_compressed_size
           /\ t_stats'.total_skipped_size >= t_stats.total_skipped_size
           /\ Extends(t_stats'.file_skips, t_stats.file_skips)
           /\ Extends(t_stats'.errors, t_stats.errors)
           /\ t_stats'.file_skips /= t_stats.file_skips =>
                 /\ Len(t_stats'.file_skips) = Len(t_stats.file_skips) + 1
                 /\ t_stats'.skipped_files = t_stats.skipped_files + 1
                 /\ SubCounters(t_stats') - SubCounters(t_stats) \in {0, 1} ]_vars

\* Three updates: a skip of an already-compressed file whose reason names the
\* extension, a skip for a plain reason, and a failure of the executor; two
\* records, three skipped files, one sub-counter at 1.
C38_Witness ==
    /\ t_calls = 3
    /\ t_stats.skipped_files = 3
    /\ Len(t_stats.file_skips) = 2
    /\ t_stats.file_skips[1].reason = ReasonExtension
    /\ t_stats.file_skips[1].category = "already_compressed"
    /\ t_stats.already_compressed_files = 1
    /\ SubCounters(t_stats) = 1
    /\ t_stats.locked = 1

(***************************************************************************)
(* The claims about the launcher's flags.                                  *)
(***************************************************************************)

\* The other flag of each pair the key is in
Partners(key) ==
    { MUTUALLY_EXCLUSIVE[i][2] : i \in { j \in 1..Len(MUTUALLY_EXCLUSIVE) : MUTUALLY_EXCLUSIVE[j][1] = key } }
      \cup
    { MUTUALLY_EXCLUSIVE[i][1] : i \in { j \in 1..Len(MUTUALLY_EXCLUSIVE) : MUTUALLY_EXCLUSIVE[j][2] = key } }

\* C39: no pair of (thorough, brand_files), (no_lzx, force_lzx) and
\* (dry_run, brand_files) is ever enabled on both sides; a toggle that enables a
\* flag leaves it enabled and its partners disabled; a toggle of an enabled flag
\* disables it and changes no other field.
C39_ExclusiveFlags ==
    /\ [](/\ ~(l_state.thorough /\ l_state.brand_files)
          /\ ~(l_state.no_lzx /\ l_state.force_lzx)
          /\ ~(l_state.dry_run /\ l_state.brand_files))
    /\ [][ \A key \in BoolFlags :
             l_key' = key =>
               IF l_state[key]
                 THEN l_state' = [l_state EXCEPT ![key] = FALSE]
                 ELSE /\ l_state'[key]
                      /\ \A other \in Partners(key) : ~l_state'[other] ]_vars

\* brand_files was just enabled in a state that had thorough and dry_run on,
\* and the toggle turned both off and left no_lzx alone
C39_Witness ==
    /\ l_key = "brand_files"
    /\ l_before.thorough /\ l_before.dry_run /\ l_before.no_lzx
    /\ ~l_before.brand_files
    /\ l_state = [l_before EXCEPT !.brand_files = TRUE, !.thorough = FALSE,
                                  !.dry_run = FALSE]

====
